---- MODULE Spec2Model ----
(***************************************************************************)
(* A model of Chess.Board (src/src/App/chess.py): the position state, the  *)
(* move generator, the attack detector, the legality filter, make_move /   *)
(* undo_move, the terminal-state evaluator, the clocks and the FEN codec.  *)
(*                                                                         *)
(* Encoding of Python values:                                              *)
(*   - a str is a sequence of one-character strings ("E4" is <<"E","4">>); *)
(*   - None is NoneStr where a str is expected, NoneInt where an int is    *)
(*     expected, NoneCoords where a {'r','c'} dict is expected and         *)
(*     NoneResult where a {winner, reason} dict is expected;               *)
(*   - the position hash string is the tuple of the four things it joins   *)
(*     with '|' (the separators make the string an injective encoding).    *)
(***************************************************************************)
EXTENDS Integers, Sequences, FiniteSets, TLC

\* ------------------------------------------------------------------ pieces
NONE == 0
WHITE_PAWN == 1
WHITE_ROOK == 2
WHITE_KNIGHT == 3
WHITE_BISHOP == 4
WHITE_QUEEN == 5
WHITE_KING == 6
BLACK_PAWN == 7
BLACK_ROOK == 8
BLACK_KNIGHT == 9
BLACK_BISHOP == 10
BLACK_QUEEN == 11
BLACK_KING == 12

NoneStr == <<"None">>
NoneInt == -1
NoneCoords == [r |-> -1, c |-> -1]
NoneResult == [winner |-> "None", reason |-> "None"]

\* Chess.Piece.get_fen: the FEN character of a piece, '' for anything else
Piece_get_fen(piece) ==
    CASE piece = WHITE_PAWN -> <<"P">> [] piece = WHITE_ROOK -> <<"R">>
      [] piece = WHITE_KNIGHT -> <<"N">> [] piece = WHITE_BISHOP -> <<"B">>
      [] piece = WHITE_QUEEN -> <<"Q">> [] piece = WHITE_KING -> <<"K">>
      [] piece = BLACK_PAWN -> <<"p">> [] piece = BLACK_ROOK -> <<"r">>
      [] piece = BLACK_KNIGHT -> <<"n">> [] piece = BLACK_BISHOP -> <<"b">>
      [] piece = BLACK_QUEEN -> <<"q">> [] piece = BLACK_KING -> <<"k">>
      [] OTHER -> <<>>

\* Chess.Piece.get_promotion_pieces
get_promotion_pieces(is_white) ==
    IF is_white THEN <<WHITE_QUEEN, WHITE_ROOK, WHITE_BISHOP, WHITE_KNIGHT>>
    ELSE <<BLACK_QUEEN, BLACK_ROOK, BLACK_BISHOP, BLACK_KNIGHT>>

\* ----------------------------------------------------------------- squares
FILES == <<"A", "B", "C", "D", "E", "F", "G", "H">>
RANKS == <<"8", "7", "6", "5", "4", "3", "2", "1">>

LowerFiles == <<"a", "b", "c", "d", "e", "f", "g", "h">>
Digits == <<"0", "1", "2", "3", "4", "5", "6", "7", "8", "9">>

\* ord(ch) for the characters a square's first character can be
Ord(ch) ==
    IF \E i \in 1..8 : FILES[i] = ch THEN 64 + (CHOOSE i \in 1..8 : FILES[i] = ch)
    ELSE IF \E i \in 1..8 : LowerFiles[i] = ch
         THEN 96 + (CHOOSE i \in 1..8 : LowerFiles[i] = ch)
    ELSE IF \E i \in 1..10 : Digits[i] = ch
         THEN 47 + (CHOOSE i \in 1..10 : Digits[i] = ch)
    ELSE 45

\* ch.isdigit()
IsDigit(ch) == \E i \in 1..10 : Digits[i] = ch

\* int(ch) for one decimal digit
DigitVal(ch) == (CHOOSE i \in 1..10 : Digits[i] = ch) - 1

\* str.lower() of one character
LowerChar(ch) ==
    IF \E i \in 1..8 : FILES[i] = ch THEN LowerFiles[CHOOSE i \in 1..8 : FILES[i] = ch]
    ELSE ch

\* str.lower()
Lower(s) == [i \in 1..Len(s) |-> LowerChar(s[i])]

\* Chess.coords_to_square
coords_to_square(r, c) == <<FILES[c + 1], RANKS[r + 1]>>

\* Chess.square_to_coords
square_to_coords(square) == [r |-> 8 - DigitVal(square[2]), c |-> Ord(square[1]) - 65]

InBoard(r, c) == 0 <= r /\ r < 8 /\ 0 <= c /\ c < 8

\* Chess.Move(from_sq, to_sq, promotion)
Move(from_sq, to_sq, promotion) ==
    [from_sq |-> from_sq, to_sq |-> to_sq, promotion |-> promotion]

\* piece <= WHITE_KING, the colour test of get_moves and _generate_moves_for_piece
PieceIsWhite(piece) == piece <= WHITE_KING

\* the [r][c] lookup of the 8x8 grid
At(b, r, c) == b[r][c]

\* --------------------------------------------------------- attack detector
\* the ray loop of _is_square_attacked: the first non-empty square from (nr, nc)
RECURSIVE FirstOnRay(_, _, _, _, _)
FirstOnRay(b, nr, nc, dr, dc) ==
    IF ~InBoard(nr, nc) THEN NONE
    ELSE IF At(b, nr, nc) # NONE THEN At(b, nr, nc)
    ELSE FirstOnRay(b, nr + dr, nc + dc, dr, dc)

\* a faulty knight_moves list: one of the eight jumps is listed twice and
\* another is missing
KnightOffsetsRepeated ==
    <<<<-2, 1>>, <<-2, 1>>, <<-1, -2>>, <<-1, 2>>, <<1, -2>>, <<1, 2>>, <<2, -1>>, <<2, 1>>>>

KnightOffsets ==
    <<<<-2, -1>>, <<-2, 1>>, <<-1, -2>>, <<-1, 2>>, <<1, -2>>, <<1, 2>>, <<2, -1>>, <<2, 1>>>>
KingOffsets ==
    <<<<-1, -1>>, <<-1, 0>>, <<-1, 1>>, <<0, -1>>, <<0, 1>>, <<1, -1>>, <<1, 0>>, <<1, 1>>>>
RookDirections == <<<<0, 1>>, <<0, -1>>, <<1, 0>>, <<-1, 0>>>>
BishopDirections == <<<<1, 1>>, <<1, -1>>, <<-1, 1>>, <<-1, -1>>>>
QueenDirections == RookDirections \o BishopDirections

\* Chess.Board._is_square_attacked
is_square_attacked(b, r, c, by_white) ==
    LET attacker_start == IF by_white THEN WHITE_PAWN ELSE BLACK_PAWN
        attacker_end == IF by_white THEN WHITE_KING ELSE BLACK_KING
        pawn_dir == IF by_white THEN 1 ELSE -1
        pawn_r == r + pawn_dir
        pawn == IF by_white THEN WHITE_PAWN ELSE BLACK_PAWN
        knight == IF by_white THEN WHITE_KNIGHT ELSE BLACK_KNIGHT
        queen == IF by_white THEN WHITE_QUEEN ELSE BLACK_QUEEN
        rook == IF by_white THEN WHITE_ROOK ELSE BLACK_ROOK
        bishop == IF by_white THEN WHITE_BISHOP ELSE BLACK_BISHOP
        king == IF by_white THEN WHITE_KING ELSE BLACK_KING
    IN  \/ /\ 0 <= pawn_r /\ pawn_r < 8
           /\ \E dc \in {-1, 1} :
                  /\ 0 <= c + dc /\ c + dc < 8
                  /\ At(b, pawn_r, c + dc) = pawn
        \/ \E i \in 1..8 :
               LET nr == r + KnightOffsets[i][1]
                   nc == c + KnightOffsets[i][2]
               IN  InBoard(nr, nc) /\ At(b, nr, nc) = knight
        \/ \E i \in 1..8 :
               LET dr == QueenDirections[i][1]
                   dc == QueenDirections[i][2]
                   is_rook_dir == i <= 4
                   piece == FirstOnRay(b, r + dr, c + dc, dr, dc)
               IN  /\ piece # NONE
                   /\ attacker_start <= piece /\ piece <= attacker_end
                   /\ \/ piece = queen
                      \/ is_rook_dir /\ piece = rook
                      \/ ~is_rook_dir /\ piece = bishop
        \/ \E i \in 1..8 :
               LET nr == r + KingOffsets[i][1]
                   nc == c + KingOffsets[i][2]
               IN  InBoard(nr, nc) /\ At(b, nr, nc) = king

\* ---------------------------------------------------------- position hash
\* Chess.Board._get_position_hash
get_position_hash(S) ==
    <<IF S.white_to_play THEN "w" ELSE "b",
      S.castling_rights,
      IF S.en_passant = NoneStr \/ S.en_passant = <<>> THEN <<"-">> ELSE S.en_passant,
      S.board>>

\* the truth value of self.en_passant (None and '' are false)
Truthy(str) == str # NoneStr /\ str # <<>>

\* castling_rights & bit, for a single bit 1, 2, 4 or 8
HasBit(rights, bit) == (rights \div bit) % 2 = 1

\* a faulty ClearBits: the bits of the mask are flipped, not cleared
ClearBitsFlipped(rights, mask) ==
    rights + (IF HasBit(mask, 1) THEN (IF HasBit(rights, 1) THEN -1 ELSE 1) ELSE 0)
           + (IF HasBit(mask, 2) THEN (IF HasBit(rights, 2) THEN -2 ELSE 2) ELSE 0)
           + (IF HasBit(mask, 4) THEN (IF HasBit(rights, 4) THEN -4 ELSE 4) ELSE 0)
           + (IF HasBit(mask, 8) THEN (IF HasBit(rights, 8) THEN -8 ELSE 8) ELSE 0)

\* castling_rights &= ~mask, for a mask made of the bits 1, 2, 4, 8
ClearBits(rights, mask) ==
    rights - (IF HasBit(rights, 1) /\ HasBit(mask, 1) THEN 1 ELSE 0)
           - (IF HasBit(rights, 2) /\ HasBit(mask, 2) THEN 2 ELSE 0)
           - (IF HasBit(rights, 4) /\ HasBit(mask, 4) THEN 4 ELSE 0)
           - (IF HasBit(rights, 8) /\ HasBit(mask, 8) THEN 8 ELSE 0)

\* ---------------------------------------------------------- move generator
Abs(x) == IF x < 0 THEN -x ELSE x

\* one Move per promotion candidate (the loops over get_promotion_pieces)
PromotionMoves(from_sq, to, is_white) ==
    [i \in 1..4 |-> Move(from_sq, to, get_promotion_pieces(is_white)[i])]

\* Chess.Board._generate_pawn_moves
generate_pawn_moves(S, r, c, from_sq, is_white) ==
    LET b == S.board
        direction == IF is_white THEN -1 ELSE 1
        start_rank == IF is_white THEN 6 ELSE 1
        promotion_rank == IF is_white THEN 0 ELSE 7
        enemy_start == IF is_white THEN BLACK_PAWN ELSE WHITE_PAWN
        enemy_end == IF is_white THEN BLACK_KING ELSE WHITE_KING
        new_r == r + direction
        pushes ==
            IF 0 <= new_r /\ new_r < 8 /\ At(b, new_r, c) = NONE
            THEN IF new_r = promotion_rank
                 THEN PromotionMoves(from_sq, coords_to_square(new_r, c), is_white)
                 ELSE <<Move(from_sq, coords_to_square(new_r, c), NoneInt)>>
                      \o (IF r = start_rank /\ At(b, r + 2 * direction, c) = NONE
                          THEN <<Move(from_sq, coords_to_square(r + 2 * direction, c), NoneInt)>>
                          ELSE <<>>)
            ELSE <<>>
        capture(dc) ==
            LET new_c == c + dc
            IN  IF 0 <= new_r /\ new_r < 8 /\ 0 <= new_c /\ new_c < 8
                   /\ enemy_start <= At(b, new_r, new_c) /\ At(b, new_r, new_c) <= enemy_end
                THEN IF new_r = promotion_rank
                     THEN PromotionMoves(from_sq, coords_to_square(new_r, new_c), is_white)
                     ELSE <<Move(from_sq, coords_to_square(new_r, new_c), NoneInt)>>
                ELSE <<>>
        correct_rank == IF is_white THEN 3 ELSE 4
        en_passant ==
            IF Truthy(S.en_passant)
               /\ r = correct_rank
               /\ Abs(c - square_to_coords(S.en_passant).c) = 1
            THEN <<Move(from_sq, S.en_passant, NoneInt)>>
            ELSE <<>>
    IN  pushes \o capture(-1) \o capture(1) \o en_passant

\* the while loop of _generate_sliding_moves along one direction
RECURSIVE SlideRay(_, _, _, _, _, _, _)
SlideRay(b, nr, nc, dr, dc, from_sq, is_white) ==
    LET friendly_start == IF is_white THEN WHITE_PAWN ELSE BLACK_PAWN
        friendly_end == IF is_white THEN WHITE_KING ELSE BLACK_KING
        enemy_start == IF is_white THEN BLACK_PAWN ELSE WHITE_PAWN
        enemy_end == IF is_white THEN BLACK_KING ELSE WHITE_KING
        target == At(b, nr, nc)
    IN  IF ~InBoard(nr, nc) THEN <<>>
        ELSE IF target = NONE
             THEN <<Move(from_sq, coords_to_square(nr, nc), NoneInt)>>
                  \o SlideRay(b, nr + dr, nc + dc, dr, dc, from_sq, is_white)
        ELSE IF enemy_start <= target /\ target <= enemy_end
             THEN <<Move(from_sq, coords_to_square(nr, nc), NoneInt)>>
        ELSE IF friendly_start <= target /\ target <= friendly_end
             THEN <<>>
        ELSE SlideRay(b, nr + dr, nc + dc, dr, dc, from_sq, is_white)

\* Chess.Board._generate_sliding_moves
RECURSIVE generate_sliding_moves(_, _, _, _, _, _)
generate_sliding_moves(b, r, c, from_sq, is_white, directions) ==
    IF directions = <<>> THEN <<>>
    ELSE SlideRay(b, r + Head(directions)[1], c + Head(directions)[2],
                  Head(directions)[1], Head(directions)[2], from_sq, is_white)
         \o generate_sliding_moves(b, r, c, from_sq, is_white, Tail(directions))

\* the offset loop shared by _generate_knight_moves and _generate_king_moves
RECURSIVE OffsetMoves(_, _, _, _, _, _)
OffsetMoves(b, r, c, from_sq, is_white, offsets) ==
    IF offsets = <<>> THEN <<>>
    ELSE LET friendly_start == IF is_white THEN WHITE_PAWN ELSE BLACK_PAWN
             friendly_end == IF is_white THEN WHITE_KING ELSE BLACK_KING
             nr == r + Head(offsets)[1]
             nc == c + Head(offsets)[2]
             here == IF InBoard(nr, nc)
                        /\ (At(b, nr, nc) = NONE
                            \/ ~(friendly_start <= At(b, nr, nc) /\ At(b, nr, nc) <= friendly_end))
                     THEN <<Move(from_sq, coords_to_square(nr, nc), NoneInt)>>
                     ELSE <<>>
         IN  here \o OffsetMoves(b, r, c, from_sq, is_white, Tail(offsets))

\* Chess.Board._generate_knight_moves
generate_knight_moves(S, r, c, from_sq, is_white) ==
    OffsetMoves(S.board, r, c, from_sq, is_white, KnightOffsets)

\* a faulty is_king_attacked: the attackers are taken from the king's own side
is_king_attacked_by_own(S, is_white) ==
    IF (IF is_white THEN S.king_positions.white ELSE S.king_positions.black) = NoneCoords
    THEN FALSE
    ELSE is_square_attacked(S.board,
                            (IF is_white THEN S.king_positions.white ELSE S.king_positions.black).r,
                            (IF is_white THEN S.king_positions.white ELSE S.king_positions.black).c,
                            is_white)

\* Chess.Board.is_king_attacked
is_king_attacked(S, is_white) ==
    LET king_pos == IF is_white THEN S.king_positions.white ELSE S.king_positions.black
    IN  IF king_pos = NoneCoords THEN FALSE
        ELSE is_square_attacked(S.board, king_pos.r, king_pos.c, ~is_white)

\* a faulty CastlingMoves: the queenside b-file square must be unattacked too
CastlingMovesSafeB(S, r, c, from_sq, is_white) ==
    LET b == S.board
        side(bit, row, empty, safe, to) ==
            IF /\ HasBit(S.castling_rights, bit)
               /\ ~is_king_attacked(S, is_white)
               /\ \A col \in empty : At(b, row, col) = NONE
               /\ \A col \in safe : ~is_square_attacked(b, row, col, ~is_white)
            THEN <<Move(from_sq, to, NoneInt)>>
            ELSE <<>>
    IN  IF is_white /\ r = 7 /\ c = 4
        THEN side(1, 7, {5, 6}, {5, 6}, <<"G", "1">>)
             \o side(2, 7, {3, 2, 1}, {3, 2, 1}, <<"C", "1">>)
        ELSE IF ~is_white /\ r = 0 /\ c = 4
        THEN side(4, 0, {5, 6}, {5, 6}, <<"G", "8">>)
             \o side(8, 0, {3, 2, 1}, {3, 2, 1}, <<"C", "8">>)
        ELSE <<>>

\* the castling part of _generate_king_moves
CastlingMoves(S, r, c, from_sq, is_white) ==
    LET b == S.board
        side(bit, row, empty, safe, to) ==
            IF /\ HasBit(S.castling_rights, bit)
               /\ ~is_king_attacked(S, is_white)
               /\ \A col \in empty : At(b, row, col) = NONE
               /\ \A col \in safe : ~is_square_attacked(b, row, col, ~is_white)
            THEN <<Move(from_sq, to, NoneInt)>>
            ELSE <<>>
    IN  IF is_white /\ r = 7 /\ c = 4
        THEN side(1, 7, {5, 6}, {5, 6}, <<"G", "1">>)
             \o side(2, 7, {3, 2, 1}, {3, 2}, <<"C", "1">>)
        ELSE IF ~is_white /\ r = 0 /\ c = 4
        THEN side(4, 0, {5, 6}, {5, 6}, <<"G", "8">>)
             \o side(8, 0, {3, 2, 1}, {3, 2}, <<"C", "8">>)
        ELSE <<>>

\* Chess.Board._generate_king_moves
generate_king_moves(S, r, c, from_sq, is_white) ==
    OffsetMoves(S.board, r, c, from_sq, is_white, KingOffsets)
    \o CastlingMoves(S, r, c, from_sq, is_white)

\* Chess.Board._generate_moves_for_piece
generate_moves_for_piece(S, r, c, piece) ==
    LET from_sq == coords_to_square(r, c)
        is_white == PieceIsWhite(piece)
    IN  IF piece \in {WHITE_PAWN, BLACK_PAWN}
        THEN generate_pawn_moves(S, r, c, from_sq, is_white)
        ELSE IF piece \in {WHITE_ROOK, BLACK_ROOK}
        THEN generate_sliding_moves(S.board, r, c, from_sq, is_white, RookDirections)
        ELSE IF piece \in {WHITE_KNIGHT, BLACK_KNIGHT}
        THEN generate_knight_moves(S, r, c, from_sq, is_white)
        ELSE IF piece \in {WHITE_BISHOP, BLACK_BISHOP}
        THEN generate_sliding_moves(S.board, r, c, from_sq, is_white, BishopDirections)
        ELSE IF piece \in {WHITE_QUEEN, BLACK_QUEEN}
        THEN generate_sliding_moves(S.board, r, c, from_sq, is_white, QueenDirections)
        ELSE IF piece \in {WHITE_KING, BLACK_KING}
        THEN generate_king_moves(S, r, c, from_sq, is_white)
        ELSE <<>>

\* the r, c loops of get_moves, from square number i (row-major) on
RECURSIVE PseudoLegalFrom(_, _)
PseudoLegalFrom(S, i) ==
    IF i > 63 THEN <<>>
    ELSE LET r == i \div 8
             c == i % 8
             piece == At(S.board, r, c)
         IN  (IF piece = NONE \/ PieceIsWhite(piece) # S.white_to_play
              THEN <<>>
              ELSE generate_moves_for_piece(S, r, c, piece))
             \o PseudoLegalFrom(S, i + 1)

\* --------------------------------------------------------- legality filter
\* Chess.Board._is_move_legal: the two-square probe, on a copy of the board
is_move_legal(S, move, king_pos) ==
    LET from_coords == square_to_coords(move.from_sq)
        to_coords == square_to_coords(move.to_sq)
        from_piece == At(S.board, from_coords.r, from_coords.c)
        probe == [[S.board EXCEPT ![from_coords.r][from_coords.c] = NONE]
                      EXCEPT ![to_coords.r][to_coords.c] = from_piece]
        new_king_pos == IF from_piece \in {WHITE_KING, BLACK_KING} THEN to_coords ELSE king_pos
    IN  ~is_square_attacked(probe, new_king_pos.r, new_king_pos.c, ~S.white_to_play)

\* Chess.Board._filter_legal_moves
filter_legal_moves(S, moves) ==
    LET king_pos == IF S.white_to_play THEN S.king_positions.white ELSE S.king_positions.black
    IN  SelectSeq(moves, LAMBDA move : is_move_legal(S, move, king_pos))

\* get_moves on a cache miss: generate, filter
GenerateLegalMoves(S) == filter_legal_moves(S, PseudoLegalFrom(S, 0))

\* ------------------------------------------------ the probe without a king
\* _is_move_legal, line 618: new_king_pos['r'] raises TypeError when the move
\* is not a king's and the cached king position handed in is None
is_move_legal_raises(S, move, king_pos) ==
    LET from_coords == square_to_coords(move.from_sq)
    IN  /\ king_pos = NoneCoords
        /\ At(S.board, from_coords.r, from_coords.c) \notin {WHITE_KING, BLACK_KING}

\* _is_move_legal, lines 613-614: the board while `move` is probed; an
\* exception at line 618 leaves it so (lines 619-620 are not reached)
ProbeBoard(S, move) ==
    LET from_coords == square_to_coords(move.from_sq)
        to_coords == square_to_coords(move.to_sq)
    IN  [[S.board EXCEPT ![from_coords.r][from_coords.c] = NONE]
             EXCEPT ![to_coords.r][to_coords.c] = At(S.board, from_coords.r, from_coords.c)]

\* _filter_legal_moves: some move of the list makes _is_move_legal raise
filter_legal_moves_raises(S, moves) ==
    LET king_pos == IF S.white_to_play THEN S.king_positions.white ELSE S.king_positions.black
    IN  /\ king_pos = NoneCoords
        /\ \E i \in 1..Len(moves) : is_move_legal_raises(S, moves[i], king_pos)

\* _filter_legal_moves: the object left when the loop is ended by the
\* exception, the probe of the first raising move still on the board
after_filter_raised(S, moves) ==
    LET i == CHOOSE i \in 1..Len(moves) :
                 /\ is_move_legal_raises(S, moves[i], NoneCoords)
                 /\ \A j \in 1..(i - 1) : ~is_move_legal_raises(S, moves[j], NoneCoords)
    IN  [S EXCEPT !.board = ProbeBoard(S, moves[i])]

\* Chess.Board.get_moves raises TypeError: the cache misses and the filter
\* raises
get_moves_raises(S) ==
    /\ S.moves_cache.hash # get_position_hash(S)
    /\ filter_legal_moves_raises(S, PseudoLegalFrom(S, 0))

\* Chess.Board.get_moves: the object left when the call raises
after_get_moves_raised(S) == after_filter_raised(S, PseudoLegalFrom(S, 0))

\* Chess.Board.get_moves: the returned list
get_moves(S) ==
    IF S.moves_cache.hash = get_position_hash(S) THEN S.moves_cache.moves
    ELSE GenerateLegalMoves(S)

\* get_moves, lines 543-544: the cache holds the list for the current position
WithCache(S, moves) ==
    [S EXCEPT !.moves_cache = [hash |-> get_position_hash(S), moves |-> moves]]

\* get_moves returning `moves`: the returned list (ret) and the object after
GetMovesWith(S, moves) == [ret |-> moves, self |-> WithCache(S, moves)]

\* Chess.Board.get_moves: the returned list and the object after the call
get_moves_call(S) == GetMovesWith(S, get_moves(S))

\* Chess.Board.get_moves: the object after the call (only the cache can change)
after_get_moves(S) == get_moves_call(S).self

\* ------------------------------------------------------ terminal evaluator
\* the squares (as <<r, c>>) holding one of the given pieces
SquaresWith(b, pieces) == {rc \in (0..7) \X (0..7) : At(b, rc[1], rc[2]) \in pieces}

\* a faulty is_insufficient_material: the colours of the bishops' squares are
\* not compared
is_insufficient_material_any_colours(S) ==
    /\ SquaresWith(S.board, {WHITE_PAWN, WHITE_ROOK, WHITE_QUEEN,
                             BLACK_PAWN, BLACK_ROOK, BLACK_QUEEN}) = {}
    /\ \/ Cardinality(SquaresWith(S.board, {WHITE_KNIGHT, BLACK_KNIGHT, WHITE_BISHOP, BLACK_BISHOP})) <= 1
       \/ SquaresWith(S.board, {WHITE_KNIGHT, BLACK_KNIGHT}) = {}

\* Chess.Board.is_insufficient_material
is_insufficient_material(S) ==
    LET b == S.board
        white_other == Cardinality(SquaresWith(b, {WHITE_PAWN, WHITE_ROOK, WHITE_QUEEN}))
        black_other == Cardinality(SquaresWith(b, {BLACK_PAWN, BLACK_ROOK, BLACK_QUEEN}))
        white_bishops == Cardinality(SquaresWith(b, {WHITE_BISHOP}))
        black_bishops == Cardinality(SquaresWith(b, {BLACK_BISHOP}))
        white_knights == Cardinality(SquaresWith(b, {WHITE_KNIGHT}))
        black_knights == Cardinality(SquaresWith(b, {BLACK_KNIGHT}))
        bishop_colors == {(rc[1] + rc[2]) % 2 : rc \in SquaresWith(b, {WHITE_BISHOP, BLACK_BISHOP})}
    IN  IF white_other = 0 /\ black_other = 0 /\ white_bishops = 0 /\ black_bishops = 0
           /\ white_knights = 0 /\ black_knights = 0
        THEN TRUE
        ELSE IF white_other = 0 /\ black_other = 0
                /\ \/ white_bishops = 1 /\ white_knights = 0 /\ black_bishops = 0 /\ black_knights = 0
                   \/ black_bishops = 1 /\ black_knights = 0 /\ white_bishops = 0 /\ white_knights = 0
        THEN TRUE
        ELSE IF white_other = 0 /\ black_other = 0
                /\ \/ white_knights = 1 /\ white_bishops = 0 /\ black_bishops = 0 /\ black_knights = 0
                   \/ black_knights = 1 /\ black_bishops = 0 /\ white_bishops = 0 /\ white_knights = 0
        THEN TRUE
        ELSE IF white_other = 0 /\ black_other = 0 /\ white_knights = 0 /\ black_knights = 0
                /\ white_bishops + black_bishops > 1
        THEN Cardinality(bishop_colors) = 1
        ELSE FALSE

\* how many entries of the position history equal the hash h
RECURSIVE CountHash(_, _)
CountHash(history, h) ==
    IF history = <<>> THEN 0
    ELSE (IF Head(history) = h THEN 1 ELSE 0) + CountHash(Tail(history), h)

\* a faulty is_threefold_repetition: two occurrences are enough
is_threefold_repetition_twice(S) ==
    IF Len(S.position_history) < 4 THEN FALSE
    ELSE CountHash(S.position_history, get_position_hash(S)) >= 2

\* Chess.Board.is_threefold_repetition
is_threefold_repetition(S) ==
    IF Len(S.position_history) < 4 THEN FALSE
    ELSE CountHash(S.position_history, get_position_hash(S)) >= 3

GameResult(over, reason, winner) == [over |-> over, reason |-> reason, winner |-> winner]

\* is_game_over, lines 509-516: one of the four conditions checked before
\* get_moves() is called holds
OverBeforeMoves(S) ==
    \/ S.timers_enabled /\ S.timeout_result # NoneResult
    \/ S.halfmove >= 100
    \/ is_insufficient_material(S)
    \/ is_threefold_repetition(S)

\* a faulty GameOverWith: the empty move list is looked at before the draws
GameOverWithMovesFirst(S, moves) ==
    IF S.timers_enabled /\ S.timeout_result # NoneResult
    THEN GameResult(TRUE, S.timeout_result.reason, S.timeout_result.winner)
    ELSE IF moves = <<>>
    THEN IF is_king_attacked(S, S.white_to_play)
         THEN GameResult(TRUE, "checkmate", IF S.white_to_play THEN "black" ELSE "white")
         ELSE GameResult(TRUE, "stalemate", "draw")
    ELSE IF S.halfmove >= 100
    THEN GameResult(TRUE, "50-move rule", "draw")
    ELSE IF is_insufficient_material(S)
    THEN GameResult(TRUE, "insufficient material", "draw")
    ELSE IF is_threefold_repetition(S)
    THEN GameResult(TRUE, "threefold repetition", "draw")
    ELSE GameResult(FALSE, "None", "None")

\* Chess.Board.is_game_over, with `moves` the list its get_moves() call returns
GameOverWith(S, moves) ==
    IF S.timers_enabled /\ S.timeout_result # NoneResult
    THEN GameResult(TRUE, S.timeout_result.reason, S.timeout_result.winner)
    ELSE IF S.halfmove >= 100
    THEN GameResult(TRUE, "50-move rule", "draw")
    ELSE IF is_insufficient_material(S)
    THEN GameResult(TRUE, "insufficient material", "draw")
    ELSE IF is_threefold_repetition(S)
    THEN GameResult(TRUE, "threefold repetition", "draw")
    ELSE IF moves = <<>>
    THEN IF is_king_attacked(S, S.white_to_play)
         THEN GameResult(TRUE, "checkmate", IF S.white_to_play THEN "black" ELSE "white")
         ELSE GameResult(TRUE, "stalemate", "draw")
    ELSE GameResult(FALSE, "None", "None")

\* is_game_over with `moves` the list its get_moves() call returns: the
\* returned dict (ret) and the object after the call (self).  get_moves() is
\* reached, and fills the cache, only when none of the first four conditions
\* holds
IsGameOverWith(S, moves) ==
    [ret |-> GameOverWith(S, moves),
     self |-> IF OverBeforeMoves(S) THEN S ELSE WithCache(S, moves)]

\* Chess.Board.is_game_over raises TypeError: get_moves() is reached and raises
is_game_over_raises(S) == get_moves_raises(S) /\ ~OverBeforeMoves(S)

\* Chess.Board.is_game_over: the returned dict and the object after the call
is_game_over_call(S) == IsGameOverWith(S, get_moves(S))

\* Chess.Board.is_game_over: the returned dict
is_game_over(S) == is_game_over_call(S).ret

\* Chess.Board.is_game_over: the object after the call
after_is_game_over(S) == is_game_over_call(S).self

\* ------------------------------------------------------------------ clocks
\* Chess.Board.set_timers
set_timers(S, white_ms, black_ms) ==
    [S EXCEPT !.white_time = white_ms,
              !.black_time = black_ms,
              !.timers_enabled = (white_ms # NoneInt \/ black_ms # NoneInt),
              !.timeout_result = NoneResult]

\* a faulty decrement_current_player_timer: the time is not set to 0 when it
\* runs out
after_decrement_unclamped(S, ms) ==
    IF ~S.timers_enabled THEN S
    ELSE IF S.white_to_play /\ S.white_time # NoneInt
    THEN IF S.white_time - ms <= 0
         THEN [S EXCEPT !.white_time = S.white_time - ms,
                        !.timeout_result = [winner |-> "black", reason |-> "timeout"]]
         ELSE [S EXCEPT !.white_time = S.white_time - ms]
    ELSE IF ~S.white_to_play /\ S.black_time # NoneInt
    THEN IF S.black_time - ms <= 0
         THEN [S EXCEPT !.black_time = S.black_time - ms,
                        !.timeout_result = [winner |-> "white", reason |-> "timeout"]]
         ELSE [S EXCEPT !.black_time = S.black_time - ms]
    ELSE S

\* Chess.Board.decrement_current_player_timer: the object after the call
after_decrement_current_player_timer(S, ms) ==
    IF ~S.timers_enabled THEN S
    ELSE IF S.white_to_play /\ S.white_time # NoneInt
    THEN IF S.white_time - ms <= 0
         THEN [S EXCEPT !.white_time = 0,
                        !.timeout_result = [winner |-> "black", reason |-> "timeout"]]
         ELSE [S EXCEPT !.white_time = S.white_time - ms]
    ELSE IF ~S.white_to_play /\ S.black_time # NoneInt
    THEN IF S.black_time - ms <= 0
         THEN [S EXCEPT !.black_time = 0,
                        !.timeout_result = [winner |-> "white", reason |-> "timeout"]]
         ELSE [S EXCEPT !.black_time = S.black_time - ms]
    ELSE S

\* Chess.Board.decrement_current_player_timer: the returned bool
decrement_current_player_timer(S, ms) ==
    IF ~S.timers_enabled THEN FALSE
    ELSE IF S.white_to_play /\ S.white_time # NoneInt THEN S.white_time - ms <= 0
    ELSE IF ~S.white_to_play /\ S.black_time # NoneInt THEN S.black_time - ms <= 0
    ELSE FALSE

\* --------------------------------------------------------------- the board
\* Chess.Board.set_piece
set_piece(S, piece, square) ==
    IF square = <<>> \/ square = NoneStr THEN S
    ELSE LET coords == square_to_coords(square)
         IN  IF InBoard(coords.r, coords.c)
             THEN [S EXCEPT !.board[coords.r][coords.c] = piece,
                            !.king_positions =
                                IF piece = WHITE_KING THEN [@ EXCEPT !.white = coords]
                                ELSE IF piece = BLACK_KING THEN [@ EXCEPT !.black = coords]
                                ELSE @]
             ELSE S

\* Chess.Board.get_piece
get_piece(S, square) ==
    IF square = <<>> \/ square = NoneStr THEN NONE
    ELSE LET coords == square_to_coords(square)
         IN  IF InBoard(coords.r, coords.c) THEN At(S.board, coords.r, coords.c) ELSE NONE

\* four set_piece calls in a row (a castling, or its undo)
SetPieces(S, p1, s1, p2, s2) == set_piece(set_piece(S, p1, s1), p2, s2)

E1 == <<"E", "1">>
G1 == <<"G", "1">>
C1 == <<"C", "1">>
F1 == <<"F", "1">>
B1 == <<"B", "1">>
D1 == <<"D", "1">>
H1 == <<"H", "1">>
A1 == <<"A", "1">>
E8 == <<"E", "8">>
G8 == <<"G", "8">>
C8 == <<"C", "8">>
F8 == <<"F", "8">>
D8 == <<"D", "8">>
H8 == <<"H", "8">>
A8 == <<"A", "8">>

\* str(n) for 0 <= n <= 9
DigitStr(n) == Digits[n + 1]

\* ----------------------------------------------------- move applier/undoer
\* move.promotion or <queen>: None and 0 are false
PromotionOr(promotion, queen) ==
    IF promotion = NoneInt \/ promotion = NONE THEN queen ELSE promotion

\* a faulty CastlingBoard: the king castles and the rook stays in its corner
CastlingBoardKingOnly(S, move, from_piece) ==
    IF \/ from_piece = WHITE_KING /\ move.from_sq = E1 /\ move.to_sq \in {G1, C1}
       \/ from_piece = BLACK_KING /\ move.from_sq = E8 /\ move.to_sq \in {G8, C8}
    THEN SetPieces(S, from_piece, move.to_sq, NONE, move.from_sq)
    ELSE S

\* make_move, "# Castling": the board and king cache after the block
CastlingBoard(S, move, from_piece) ==
    IF from_piece = WHITE_KING /\ move.from_sq = E1
    THEN IF move.to_sq = G1 /\ HasBit(S.castling_rights, 1)
         THEN SetPieces(SetPieces(S, WHITE_KING, G1, NONE, E1), WHITE_ROOK, F1, NONE, H1)
         ELSE IF move.to_sq = C1 /\ HasBit(S.castling_rights, 2)
         THEN SetPieces(SetPieces(S, WHITE_KING, C1, NONE, E1), WHITE_ROOK, D1, NONE, A1)
         ELSE S
    ELSE IF from_piece = BLACK_KING /\ move.from_sq = E8
    THEN IF move.to_sq = G8 /\ HasBit(S.castling_rights, 4)
         THEN SetPieces(SetPieces(S, BLACK_KING, G8, NONE, E8), BLACK_ROOK, F8, NONE, H8)
         ELSE IF move.to_sq = C8 /\ HasBit(S.castling_rights, 8)
         THEN SetPieces(SetPieces(S, BLACK_KING, C8, NONE, E8), BLACK_ROOK, D8, NONE, A8)
         ELSE S
    ELSE S

\* make_move, "# Castling": castling_move
IsCastlingMove(S, move, from_piece) ==
    \/ /\ from_piece = WHITE_KING /\ move.from_sq = E1
       /\ \/ move.to_sq = G1 /\ HasBit(S.castling_rights, 1)
          \/ move.to_sq = C1 /\ HasBit(S.castling_rights, 2)
    \/ /\ from_piece = BLACK_KING /\ move.from_sq = E8
       /\ \/ move.to_sq = G8 /\ HasBit(S.castling_rights, 4)
          \/ move.to_sq = C8 /\ HasBit(S.castling_rights, 8)

\* one `if ...: self.castling_rights &= ~mask` statement
ClearIf(cond, rights, mask) == IF cond THEN ClearBits(rights, mask) ELSE rights

\* make_move, "# Castling": castling_rights after the king's move
KingRightsAfter(rights, move, from_piece) ==
    IF from_piece = WHITE_KING /\ move.from_sq = E1 THEN ClearBits(rights, 3)
    ELSE IF from_piece = BLACK_KING /\ move.from_sq = E8 THEN ClearBits(rights, 12)
    ELSE rights

\* make_move, "# Rook move/capture updates": the four statements on the moving
\* piece, in the order of the code
RookMoveRightsAfter(rights, move, from_piece) ==
    ClearIf(from_piece = BLACK_ROOK /\ move.from_sq = H8,
        ClearIf(from_piece = BLACK_ROOK /\ move.from_sq = A8,
            ClearIf(from_piece = WHITE_ROOK /\ move.from_sq = H1,
                ClearIf(from_piece = WHITE_ROOK /\ move.from_sq = A1, rights, 2),
                1),
            8),
        4)

\* make_move, "# Rook move/capture updates": the four statements on the
\* captured piece, in the order of the code
RookCaptureRightsAfter(rights, move, to_piece) ==
    ClearIf(move.to_sq = H8 /\ to_piece = BLACK_ROOK,
        ClearIf(move.to_sq = A8 /\ to_piece = BLACK_ROOK,
            ClearIf(move.to_sq = H1 /\ to_piece = WHITE_ROOK,
                ClearIf(move.to_sq = A1 /\ to_piece = WHITE_ROOK, rights, 2),
                1),
            8),
        4)

\* make_move, "# Castling" and "# Rook move/capture updates": castling_rights
CastlingRightsAfter(rights, move, from_piece, to_piece) ==
    RookCaptureRightsAfter(
        RookMoveRightsAfter(KingRightsAfter(rights, move, from_piece), move, from_piece),
        move, to_piece)

\* a faulty EnPassantAfter: any move of a pawn off its starting rank sets the
\* target
EnPassantAfterAnyPush(move, from_piece) ==
    IF from_piece = WHITE_PAWN /\ move.from_sq[2] = "2"
    THEN <<move.from_sq[1], "3">>
    ELSE IF from_piece = BLACK_PAWN /\ move.from_sq[2] = "7"
    THEN <<move.from_sq[1], "6">>
    ELSE NoneStr

\* make_move, "# En passant": the new en passant target
EnPassantAfter(move, from_piece) ==
    IF from_piece = WHITE_PAWN /\ move.from_sq[2] = "2" /\ move.to_sq[2] = "4"
    THEN <<move.from_sq[1], "3">>
    ELSE IF from_piece = BLACK_PAWN /\ move.from_sq[2] = "7" /\ move.to_sq[2] = "5"
    THEN <<move.from_sq[1], "6">>
    ELSE NoneStr

\* make_move, "# En passant": en_passant_capture
IsEnPassantCapture(move, from_piece, prev_en_passant) ==
    /\ from_piece \in {WHITE_PAWN, BLACK_PAWN}
    /\ move.to_sq = prev_en_passant
    /\ move.from_sq[1] # move.to_sq[1]

\* make_move and undo_move: cap_sq, the square of the pawn taken en passant
EnPassantCapSq(to_sq, from_piece) ==
    IF from_piece = WHITE_PAWN
    THEN <<to_sq[1], DigitStr(DigitVal(to_sq[2]) - 1)>>
    ELSE <<to_sq[1], DigitStr(DigitVal(to_sq[2]) + 1)>>

\* make_move, "# Promotion": promotion (None when the move does not promote)
PromotionOf(move, from_piece) ==
    IF from_piece = WHITE_PAWN /\ move.to_sq[2] = "8"
    THEN PromotionOr(move.promotion, WHITE_QUEEN)
    ELSE IF from_piece = BLACK_PAWN /\ move.to_sq[2] = "1"
    THEN PromotionOr(move.promotion, BLACK_QUEEN)
    ELSE NoneInt

\* promotion as a truth value (None and 0 are false)
IsPromotion(promotion) == promotion # NoneInt /\ promotion # NONE

\* a faulty RequireSync: a promotion asks for no synchronisation
RequireSyncNoPromotion(castling_move, en_passant_capture, promotion) ==
    castling_move \/ en_passant_capture

\* make_move: require_sync of an applied move
RequireSync(castling_move, en_passant_capture, promotion) ==
    castling_move \/ en_passant_capture \/ IsPromotion(promotion)

\* a faulty HalfmoveAfter: the clock is reset but never grows
HalfmoveAfterFrozen(halfmove, from_piece, to_piece, en_passant_capture) ==
    IF from_piece \in {WHITE_PAWN, BLACK_PAWN} \/ to_piece # NONE \/ en_passant_capture
    THEN 0
    ELSE halfmove

\* a faulty HalfmoveAfter: a capture by a piece does not reset the clock
HalfmoveAfterPawnOnly(halfmove, from_piece, to_piece, en_passant_capture) ==
    IF from_piece \in {WHITE_PAWN, BLACK_PAWN} \/ en_passant_capture
    THEN 0
    ELSE halfmove + 1

\* make_move: the halfmove clock after an applied move
HalfmoveAfter(halfmove, from_piece, to_piece, en_passant_capture) ==
    IF from_piece \in {WHITE_PAWN, BLACK_PAWN} \/ to_piece # NONE \/ en_passant_capture
    THEN 0
    ELSE halfmove + 1

\* make_move, "# En passant": the captured pawn leaves the board
EnPassantBoard(SC, move, from_piece, en_passant_capture) ==
    IF en_passant_capture
    THEN set_piece(SC, NONE, EnPassantCapSq(move.to_sq, from_piece))
    ELSE SC

\* make_move, "# Promotion" and "# Normal move": the moving piece is placed
MoveBoard(SE, move, from_piece, castling_move, promotion) ==
    IF castling_move THEN SE
    ELSE IF IsPromotion(promotion)
    THEN SetPieces(SE, promotion, move.to_sq, NONE, move.from_sq)
    ELSE SetPieces(SE, from_piece, move.to_sq, NONE, move.from_sq)

\* make_move: the entry appended to move_history
HistoryRecord(S, move, from_piece, to_piece, castling_move, en_passant_capture, promotion) ==
    [move |-> Move(move.from_sq, move.to_sq, NoneInt),
     from_piece |-> from_piece,
     to_piece |-> to_piece,
     castling_move |-> castling_move,
     en_passant_capture |-> en_passant_capture,
     prev_en_passant |-> S.en_passant,
     castling_rights |-> S.castling_rights,
     halfmove |-> S.halfmove,
     fullmove |-> S.fullmove,
     promotion |-> promotion]

\* make_move: rights, en passant target, history, clocks and side to move,
\* on the object SM whose pieces have been moved
Bookkeeping(SM, S, move, from_piece, to_piece, en_passant_capture, record) ==
    [SM EXCEPT
       !.castling_rights = CastlingRightsAfter(S.castling_rights, move, from_piece, to_piece),
       !.en_passant = EnPassantAfter(move, from_piece),
       !.move_history = Append(S.move_history, record),
       !.halfmove = HalfmoveAfter(S.halfmove, from_piece, to_piece, en_passant_capture),
       !.fullmove = IF ~S.white_to_play THEN S.fullmove + 1 ELSE S.fullmove,
       !.white_to_play = ~S.white_to_play]

\* a faulty RecordPosition: the position reached is not recorded
RecordPositionSkipped(SF) == SF

\* make_move, line 414: position_history.append(self._get_position_hash())
RecordPosition(SF) ==
    [SF EXCEPT !.position_history = Append(SF.position_history, get_position_hash(SF))]

\* make_move, lines 327-414, once the pieces and the three flags are known
ApplyMoveWith(S, move, from_piece, to_piece, castling_move, en_passant_capture, promotion) ==
    RecordPosition(
        Bookkeeping(
            MoveBoard(
                EnPassantBoard(CastlingBoard(S, move, from_piece),
                               move, from_piece, en_passant_capture),
                move, from_piece, castling_move, promotion),
            S, move, from_piece, to_piece, en_passant_capture,
            HistoryRecord(S, move, from_piece, to_piece, castling_move,
                          en_passant_capture, promotion)))

\* make_move, lines 327-414, once the two pieces are known
ApplyMoveOf(S, move, from_piece, to_piece) ==
    ApplyMoveWith(S, move, from_piece, to_piece,
                  IsCastlingMove(S, move, from_piece),
                  IsEnPassantCapture(move, from_piece, S.en_passant),
                  PromotionOf(move, from_piece))

\* make_move, lines 327-414: the object after the move is applied, before the
\* final is_game_over()
ApplyMove(S, move) ==
    ApplyMoveOf(S, move, get_piece(S, move.from_sq), get_piece(S, move.to_sq))

\* make_move: require_sync once the moving piece is known
SyncOf(S, move, from_piece) ==
    RequireSync(IsCastlingMove(S, move, from_piece),
                IsEnPassantCapture(move, from_piece, S.en_passant),
                PromotionOf(move, from_piece))

\* make_move: require_sync of the move ApplyMove applies
ApplyMoveSync(S, move) == SyncOf(S, move, get_piece(S, move.from_sq))

\* make_move, line 325: any(m.from_sq == move.from_sq and m.to_sq == move.to_sq ...)
InLegalMoves(legal_moves, move) ==
    \E i \in 1..Len(legal_moves) :
        legal_moves[i].from_sq = move.from_sq /\ legal_moves[i].to_sq = move.to_sq

MoveResult(over, reason, winner, require_sync) ==
    [over |-> over, reason |-> reason, winner |-> winner, require_sync |-> require_sync]

\* make_move, lines 415-418: F is what the final is_game_over() call returned
\* and left
MoveApplied(F, require_sync) ==
    [exit |-> "applied",
     ret |-> IF F.ret.over
             THEN MoveResult(TRUE, F.ret.reason, F.ret.winner, require_sync)
             ELSE MoveResult(FALSE, "None", "None", require_sync),
     self |-> F.self]

\* make_move, lines 327-418: the move is applied to S
MoveApply(S, move) ==
    MoveApplied(is_game_over_call(ApplyMove(S, move)), ApplyMoveSync(S, move))

\* a faulty MakeMoveChecked: an illegal move is won by the side that made it
MakeMoveCheckedMoverWins(S0, L, move, check_legal) ==
    IF check_legal /\ ~InLegalMoves(L.ret, move)
    THEN [exit |-> "illegal",
          ret |-> MoveResult(TRUE, "illegal move",
                             IF S0.white_to_play THEN "white" ELSE "black", FALSE),
          self |-> L.self]
    ELSE MoveApply(IF check_legal THEN L.self ELSE S0, move)

\* a faulty MakeMoveChecked: the illegal move is applied before it is reported
MakeMoveCheckedApplies(S0, L, move, check_legal) ==
    IF check_legal /\ ~InLegalMoves(L.ret, move)
    THEN [exit |-> "illegal",
          ret |-> MoveResult(TRUE, "illegal move",
                             IF S0.white_to_play THEN "black" ELSE "white", FALSE),
          self |-> ApplyMove(L.self, move)]
    ELSE MoveApply(IF check_legal THEN L.self ELSE S0, move)

\* make_move, lines 323-418: S0 is the object the initial is_game_over() left
\* and L what get_moves() returns and leaves, when check_legal has it called
MakeMoveChecked(S0, L, move, check_legal) ==
    IF check_legal /\ ~InLegalMoves(L.ret, move)
    THEN [exit |-> "illegal",
          ret |-> MoveResult(TRUE, "illegal move",
                             IF S0.white_to_play THEN "black" ELSE "white", FALSE),
          self |-> L.self]
    ELSE MoveApply(IF check_legal THEN L.self ELSE S0, move)

\* a faulty MakeMoveAfter: the early return of a finished game is missing
MakeMoveAfterUnguarded(G, move, check_legal) ==
    MakeMoveChecked(G.self, get_moves_call(G.self), move, check_legal)

\* Chess.Board.make_move after its first line: G is what the initial
\* is_game_over() call returned and left.  The result names the exit taken
\* ("over", "illegal" or "applied"), the returned dict and the object after.
MakeMoveAfter(G, move, check_legal) ==
    IF G.ret.over
    THEN [exit |-> "over",
          ret |-> MoveResult(TRUE, G.ret.reason, G.ret.winner, FALSE),
          self |-> G.self]
    ELSE MakeMoveChecked(G.self, get_moves_call(G.self), move, check_legal)

\* make_move, line 415: the move is applied to S and the final is_game_over()
\* raises TypeError
MoveApplyRaises(S, move) == is_game_over_raises(ApplyMove(S, move))

\* make_move after its first line raises TypeError: the game is not over, the
\* move passes the legality test where it is asked for, and the final
\* is_game_over() raises
MakeMoveAfterRaises(G, move, check_legal) ==
    /\ ~G.ret.over
    /\ \E L \in {get_moves_call(G.self)} :
           /\ check_legal => InLegalMoves(L.ret, move)
           /\ MoveApplyRaises(IF check_legal THEN L.self ELSE G.self, move)

\* make_move after its first line: the object left when the final
\* is_game_over() raises
after_make_move_raised(G, move, check_legal) ==
    after_get_moves_raised(
        ApplyMove(IF check_legal THEN get_moves_call(G.self).self ELSE G.self, move))

\* Chess.Board.make_move: exit, returned dict and object after the call
make_move_call(S, move, check_legal) == MakeMoveAfter(is_game_over_call(S), move, check_legal)

\* Chess.Board.make_move: the returned dict
make_move(S, move, check_legal) == make_move_call(S, move, check_legal).ret

\* Chess.Board.make_move: the object after the call
after_make_move(S, move, check_legal) == make_move_call(S, move, check_legal).self

\* a faulty UndoCastling: the rook of a castling stays where it stands
UndoCastlingKingOnly(SP, last) == SP

\* undo_move, lines 433-445: the rook of a castling returns to its corner
UndoCastling(SP, last) ==
    IF last.castling_move
    THEN IF last.move.from_sq = E1 /\ last.move.to_sq = G1
         THEN SetPieces(SP, WHITE_ROOK, H1, NONE, F1)
         ELSE IF last.move.from_sq = E1 /\ last.move.to_sq = C1
         THEN SetPieces(SP, WHITE_ROOK, A1, NONE, D1)
         ELSE IF last.move.from_sq = E8 /\ last.move.to_sq = G8
         THEN SetPieces(SP, BLACK_ROOK, H8, NONE, F8)
         ELSE IF last.move.from_sq = E8 /\ last.move.to_sq = C8
         THEN SetPieces(SP, BLACK_ROOK, A8, NONE, D8)
         ELSE SP
    ELSE SP

\* undo_move, lines 446-452: the pawn taken en passant returns
UndoEnPassant(SC, last) ==
    IF last.en_passant_capture
    THEN IF last.from_piece = WHITE_PAWN
         THEN set_piece(SC, BLACK_PAWN, EnPassantCapSq(last.move.to_sq, WHITE_PAWN))
         ELSE IF last.from_piece = BLACK_PAWN
         THEN set_piece(SC, WHITE_PAWN, EnPassantCapSq(last.move.to_sq, BLACK_PAWN))
         ELSE SC
    ELSE SC

\* undo_move: the history pop and the restored fields, on the object SE whose
\* pieces have been put back
UndoBookkeeping(SE, S, last) ==
    [SE EXCEPT
       !.move_history = SubSeq(S.move_history, 1, Len(S.move_history) - 1),
       !.castling_rights = last.castling_rights,
       !.en_passant = last.prev_en_passant,
       !.halfmove = last.halfmove,
       !.fullmove = last.fullmove,
       !.white_to_play = ~S.white_to_play,
       !.position_history =
           IF S.position_history = <<>> THEN <<>>
           ELSE SubSeq(S.position_history, 1, Len(S.position_history) - 1)]

\* undo_move with `last` the popped history entry
UndoLast(S, last) ==
    UndoBookkeeping(
        UndoEnPassant(
            UndoCastling(
                SetPieces(S, last.from_piece, last.move.from_sq, last.to_piece, last.move.to_sq),
                last),
            last),
        S, last)

\* a faulty undo_move: with no move to undo it still hands the move to the
\* other side and drops the last recorded position
undo_move_unguarded(S) ==
    IF S.move_history = <<>>
    THEN [S EXCEPT !.white_to_play = ~S.white_to_play,
                   !.position_history =
                       IF S.position_history = <<>> THEN <<>>
                       ELSE SubSeq(S.position_history, 1, Len(S.position_history) - 1)]
    ELSE UndoLast(S, S.move_history[Len(S.move_history)])

\* Chess.Board.undo_move
undo_move(S) ==
    IF S.move_history = <<>> THEN S
    ELSE UndoLast(S, S.move_history[Len(S.move_history)])

\* --------------------------------------------------------------- FEN codec
\* str(n) for an int n >= 0
RECURSIVE IntStr(_)
IntStr(n) == IF n < 10 THEN <<DigitStr(n)>> ELSE IntStr(n \div 10) \o <<DigitStr(n % 10)>>

\* int(s) for a str of decimal digits
RECURSIVE StrInt(_)
StrInt(s) ==
    IF Len(s) = 1 THEN DigitVal(s[1])
    ELSE 10 * StrInt(SubSeq(s, 1, Len(s) - 1)) + DigitVal(s[Len(s)])

\* str.split(sep) for a one-character separator
RECURSIVE Split(_, _)
Split(s, sep) ==
    IF \A i \in 1..Len(s) : s[i] # sep THEN <<s>>
    ELSE LET k == CHOOSE i \in 1..Len(s) : s[i] = sep /\ \A j \in 1..(i - 1) : s[j] # sep
         IN  <<SubSeq(s, 1, k - 1)>> \o Split(SubSeq(s, k + 1, Len(s)), sep)

\* ch in s
InStr(ch, s) == \E i \in 1..Len(s) : s[i] = ch

\* Chess.Move.__repr__: str(move)
Move_repr(move) ==
    Lower(move.from_sq) \o Lower(move.to_sq)
    \o (IF move.promotion # NoneInt /\ move.promotion # NONE
        THEN IntStr(move.promotion)
        ELSE <<>>)

\* get_fen: one rank of the placement field, from column c with `empty` pending
RECURSIVE FenRow(_, _, _, _)
FenRow(b, r, c, empty) ==
    LET pending == IF empty > 0 THEN IntStr(empty) ELSE <<>>
    IN  IF c = 8 THEN pending
        ELSE IF Piece_get_fen(At(b, r, c)) = <<>> THEN FenRow(b, r, c + 1, empty + 1)
        ELSE pending \o Piece_get_fen(At(b, r, c)) \o FenRow(b, r, c + 1, 0)

\* get_fen: the placement field, from rank index r on
RECURSIVE FenPlacement(_, _)
FenPlacement(b, r) ==
    IF r = 7 THEN FenRow(b, r, 0, 0)
    ELSE FenRow(b, r, 0, 0) \o <<"/">> \o FenPlacement(b, r + 1)

\* get_fen: the castling field
FenCastling(rights) ==
    LET castling == (IF HasBit(rights, 1) THEN <<"K">> ELSE <<>>)
                    \o (IF HasBit(rights, 2) THEN <<"Q">> ELSE <<>>)
                    \o (IF HasBit(rights, 4) THEN <<"k">> ELSE <<>>)
                    \o (IF HasBit(rights, 8) THEN <<"q">> ELSE <<>>)
    IN  IF castling = <<>> THEN <<"-">> ELSE castling

\* Chess.Board.get_fen
get_fen(S) ==
    FenPlacement(S.board, 0)
    \o <<" ">> \o (IF S.white_to_play THEN <<"w">> ELSE <<"b">>)
    \o <<" ">> \o FenCastling(S.castling_rights)
    \o <<" ">> \o (IF Truthy(S.en_passant) THEN Lower(S.en_passant) ELSE <<"-">>)
    \o <<" ">> \o IntStr(S.halfmove)
    \o <<" ">> \o IntStr(S.fullmove)

\* load_fen: piece_map.get(ch, Chess.Piece.NONE)
PieceMap(ch) ==
    CASE ch = "P" -> WHITE_PAWN [] ch = "N" -> WHITE_KNIGHT [] ch = "B" -> WHITE_BISHOP
      [] ch = "R" -> WHITE_ROOK [] ch = "Q" -> WHITE_QUEEN [] ch = "K" -> WHITE_KING
      [] ch = "p" -> BLACK_PAWN [] ch = "n" -> BLACK_KNIGHT [] ch = "b" -> BLACK_BISHOP
      [] ch = "r" -> BLACK_ROOK [] ch = "q" -> BLACK_QUEEN [] ch = "k" -> BLACK_KING
      [] OTHER -> NONE

\* load_fen: the loop over the characters of one rank
RECURSIVE ParseRow(_, _, _, _)
ParseRow(row, i, c, squares) ==
    IF i > Len(row) THEN squares
    ELSE IF IsDigit(row[i]) THEN ParseRow(row, i + 1, c + DigitVal(row[i]), squares)
    ELSE ParseRow(row, i + 1, c + 1, [squares EXCEPT ![c] = PieceMap(row[i])])

\* load_fen: the board the placement field describes
ParsePlacement(piece_placement) ==
    LET rows == Split(piece_placement, "/")
    IN  [r \in 0..7 |-> ParseRow(rows[r + 1], 1, 0, [c \in 0..7 |-> NONE])]

\* _update_king_positions: the last square, in row-major order, holding the king
LastSquareWith(b, king) ==
    LET ks == SquaresWith(b, {king})
    IN  IF ks = {} THEN NoneCoords
        ELSE LET rc == CHOOSE x \in ks : \A y \in ks : 8 * y[1] + y[2] <= 8 * x[1] + x[2]
             IN  [r |-> rc[1], c |-> rc[2]]

\* Chess.Board._update_king_positions
update_king_positions(S) ==
    [S EXCEPT !.king_positions = [white |-> LastSquareWith(S.board, WHITE_KING),
                                  black |-> LastSquareWith(S.board, BLACK_KING)]]

\* a faulty FenRights: the bits of 'K' and 'Q' are exchanged
FenRightsSwapped(castling) ==
    (IF InStr("K", castling) THEN 2 ELSE 0) + (IF InStr("Q", castling) THEN 1 ELSE 0)
    + (IF InStr("k", castling) THEN 4 ELSE 0) + (IF InStr("q", castling) THEN 8 ELSE 0)

\* load_fen, lines 201-205: the castling rights the castling field names
FenRights(castling) ==
    (IF InStr("K", castling) THEN 1 ELSE 0) + (IF InStr("Q", castling) THEN 2 ELSE 0)
    + (IF InStr("k", castling) THEN 4 ELSE 0) + (IF InStr("q", castling) THEN 8 ELSE 0)

\* Chess.Board.load_fen
load_fen(S, fen) ==
    LET parts == Split(fen, " ")
        castling == parts[3]
        en_passant == parts[4]
        SL == update_king_positions(
                  [S EXCEPT !.white_to_play = (parts[2] = <<"w">>),
                            !.castling_rights = FenRights(castling),
                            !.en_passant = IF en_passant = <<"-">> THEN NoneStr ELSE en_passant,
                            !.halfmove = IF Len(parts) > 4 THEN StrInt(parts[5]) ELSE 0,
                            !.fullmove = IF Len(parts) > 5 THEN StrInt(parts[6]) ELSE 1,
                            !.board = ParsePlacement(parts[1])])
    IN  [SL EXCEPT !.position_history = <<get_position_hash(SL)>>]

\* Chess.Board.__init__: the object after construction from a FEN
NewBoard(fen) ==
    load_fen([board |-> [r \in 0..7 |-> [c \in 0..7 |-> NONE]],
              moves_cache |-> [hash |-> <<>>, moves |-> <<>>],
              king_positions |-> [white |-> NoneCoords, black |-> NoneCoords],
              position_history |-> <<>>,
              move_history |-> <<>>,
              white_time |-> NoneInt,
              black_time |-> NoneInt,
              timers_enabled |-> FALSE,
              timeout_result |-> NoneResult,
              white_to_play |-> TRUE,
              castling_rights |-> 0,
              en_passant |-> NoneStr,
              halfmove |-> 0,
              fullmove |-> 1],
             fen)

\* Chess.Board.DefaultFEN
DefaultFEN ==
    <<"r", "n", "b", "q", "k", "b", "n", "r", "/", "p", "p", "p", "p", "p", "p", "p", "p", "/", "8", "/", "8", "/", "8", "/", "8", "/", "P", "P", "P", "P", "P", "P", "P", "P", "/", "R", "N", "B", "Q", "K", "B", "N", "R", " ", "w", " ", "K", "Q", "k", "q", " ", "-", " ", "0", " ", "1">>

\* ------------------------------------------------------------- the caller
\* The games the caller plays: the FEN the Board is constructed from, the
\* from/to pairs of the moves the caller submits, how many moves the caller
\* applies, whether the caller reloads the position from its own FEN and
\* whether the caller runs the clocks.
\* MaxPly, ShortPly: how many moves the caller applies in a game (ShortPly in
\* the games whose pieces have many moves); RepPly: the same in the repetition
\* games, where the third occurrence of the start position takes 8 moves.
MaxPly == 3
ShortPly == 2
RepPly == 8

\* moves applied from the standard starting position
StartPly == 12

\* moves applied in the fifty-move game: 39 before the pawn is pushed at the
\* latest, and 100 after
FiftyPly == 139

Games ==
    <<\* castling: both sides may castle either way; a rook can leave or be taken on its corner
      [fen |-> <<"r", "3", "k", "2", "r", "/", "8", "/", "8", "/", "8", "/", "8", "/", "8", "/", "8", "/", "R", "3", "K", "2", "R", " ", "w", " ", "K", "Q", "k", "q", " ", "-", " ", "0", " ", "1">>,
       moves |-> {<<<<"E", "1">>, <<"G", "1">>>>, <<<<"E", "1">>, <<"C", "1">>>>, <<<<"H", "1">>, <<"H", "8">>>>, <<<<"H", "1">>, <<"G", "1">>>>, <<<<"E", "8">>, <<"G", "8">>>>, <<<<"E", "8">>, <<"C", "8">>>>, <<<<"A", "8">>, <<"A", "1">>>>, <<<<"E", "8">>, <<"E", "7">>>>},
       max_ply |-> ShortPly, reload |-> FALSE, clocks |-> FALSE],
      \* en passant: a double push beside an enemy pawn, for either side; the white capture e5xd6 uncovers the rook on h5, and two more moves follow the loss of the king
      [fen |-> <<"7", "k", "/", "3", "p", "4", "/", "8", "/", "K", "3", "P", "2", "r", "/", "3", "p", "4", "/", "8", "/", "4", "P", "3", "/", "8", " ", "b", " ", "-", " ", "-", " ", "0", " ", "1">>,
       moves |-> {<<<<"D", "7">>, <<"D", "5">>>>, <<<<"D", "7">>, <<"D", "6">>>>, <<<<"E", "5">>, <<"D", "6">>>>, <<<<"E", "2">>, <<"E", "4">>>>, <<<<"D", "4">>, <<"E", "3">>>>, <<<<"H", "5">>, <<"A", "5">>>>},
       max_ply |-> MaxPly + 2, reload |-> TRUE, clocks |-> FALSE],
      \* promotion: by a push and by a capture, for either side
      [fen |-> <<"1", "n", "2", "k", "3", "/", "P", "7", "/", "8", "/", "8", "/", "8", "/", "8", "/", "7", "p", "/", "4", "K", "1", "N", "1", " ", "w", " ", "-", " ", "-", " ", "0", " ", "1">>,
       moves |-> {<<<<"A", "7">>, <<"A", "8">>>>, <<<<"A", "7">>, <<"B", "8">>>>, <<<<"H", "2">>, <<"H", "1">>>>, <<<<"H", "2">>, <<"G", "1">>>>, <<<<"E", "1">>, <<"E", "2">>>>, <<<<"E", "8">>, <<"E", "7">>>>},
       max_ply |-> ShortPly, reload |-> FALSE, clocks |-> FALSE],
      \* mate: checkmate and stalemate are one move away; the clocks run
      [fen |-> <<"7", "k", "/", "5", "K", "2", "/", "8", "/", "6", "Q", "1", "/", "8", "/", "8", "/", "8", "/", "8", " ", "w", " ", "-", " ", "-", " ", "0", " ", "1">>,
       moves |-> {<<<<"G", "5">>, <<"G", "7">>>>, <<<<"G", "5">>, <<"G", "6">>>>, <<<<"G", "5">>, <<"G", "4">>>>, <<<<"H", "8">>, <<"H", "7">>>>, <<<<"H", "8">>, <<"G", "8">>>>},
       max_ply |-> ShortPly, reload |-> FALSE, clocks |-> TRUE],
      \* fifty: the halfmove clock is two moves from 100, and the second can give mate; the clocks run
      [fen |-> <<"7", "k", "/", "5", "K", "2", "/", "8", "/", "6", "Q", "1", "/", "8", "/", "8", "/", "8", "/", "8", " ", "b", " ", "-", " ", "-", " ", "9", "8", " ", "5", "0">>,
       moves |-> {<<<<"H", "8">>, <<"H", "7">>>>, <<<<"G", "5">>, <<"G", "7">>>>, <<<<"G", "5">>, <<"G", "4">>>>, <<<<"H", "7">>, <<"H", "8">>>>, <<<<"H", "7">>, <<"H", "6">>>>},
       max_ply |-> MaxPly, reload |-> FALSE, clocks |-> TRUE],
      \* material: captures lead to king and minor piece endings
      [fen |-> <<"4", "k", "3", "/", "8", "/", "8", "/", "2", "b", "5", "/", "8", "/", "3", "n", "4", "/", "3", "N", "4", "/", "4", "K", "B", "2", " ", "w", " ", "-", " ", "-", " ", "0", " ", "1">>,
       moves |-> {<<<<"F", "1">>, <<"D", "3">>>>, <<<<"E", "1">>, <<"D", "2">>>>, <<<<"D", "3">>, <<"E", "1">>>>, <<<<"C", "5">>, <<"F", "2">>>>, <<<<"E", "1">>, <<"F", "2">>>>, <<<<"D", "2">>, <<"E", "4">>>>, <<<<"E", "8">>, <<"E", "7">>>>, <<<<"E", "1">>, <<"E", "2">>>>},
       max_ply |-> MaxPly, reload |-> FALSE, clocks |-> FALSE],
      \* repetition: the kings shuffle between two squares
      [fen |-> <<"4", "k", "3", "/", "4", "p", "3", "/", "8", "/", "8", "/", "8", "/", "8", "/", "4", "P", "3", "/", "4", "K", "3", " ", "w", " ", "-", " ", "-", " ", "0", " ", "1">>,
       moves |-> {<<<<"E", "1">>, <<"D", "1">>>>, <<<<"D", "1">>, <<"E", "1">>>>, <<<<"E", "8">>, <<"D", "8">>>>, <<<<"D", "8">>, <<"E", "8">>>>, <<<<"E", "1">>, <<"E", "8">>>>},
       max_ply |-> RepPly, reload |-> FALSE, clocks |-> FALSE],
      \* late repetition: the same shuffle, started 8 moves before the halfmove clock reaches 100
      [fen |-> <<"4", "k", "3", "/", "4", "p", "3", "/", "8", "/", "8", "/", "8", "/", "8", "/", "4", "P", "3", "/", "4", "K", "3", " ", "w", " ", "-", " ", "-", " ", "9", "2", " ", "6", "0">>,
       moves |-> {<<<<"E", "1">>, <<"D", "1">>>>, <<<<"D", "1">>, <<"E", "1">>>>, <<<<"E", "8">>, <<"D", "8">>>>, <<<<"D", "8">>, <<"E", "8">>>>},
       max_ply |-> RepPly, reload |-> FALSE, clocks |-> FALSE],
      \* check by a double push: the pawn that gives check can be taken en passant
      [fen |-> <<"7", "k", "/", "3", "p", "4", "/", "8", "/", "4", "P", "3", "/", "4", "K", "3", "/", "8", "/", "8", "/", "8", " ", "b", " ", "-", " ", "-", " ", "0", " ", "1">>,
       moves |-> {<<<<"D", "7">>, <<"D", "5">>>>, <<<<"E", "5">>, <<"D", "6">>>>, <<<<"E", "4">>, <<"D", "4">>>>, <<<<"D", "7">>, <<"D", "6">>>>},
       max_ply |-> ShortPly, reload |-> FALSE, clocks |-> FALSE],
      \* late castling: the halfmove clock is one move from 100 and white may castle
      [fen |-> <<"4", "k", "3", "/", "8", "/", "8", "/", "8", "/", "8", "/", "8", "/", "8", "/", "4", "K", "2", "R", " ", "w", " ", "K", " ", "-", " ", "9", "9", " ", "8", "0">>,
       moves |-> {<<<<"E", "1">>, <<"G", "1">>>>, <<<<"E", "1">>, <<"E", "2">>>>, <<<<"H", "1">>, <<"H", "2">>>>},
       max_ply |-> ShortPly, reload |-> FALSE, clocks |-> FALSE],
      \* the standard starting position
      [fen |-> DefaultFEN,
       moves |-> {<<<<"E", "2">>, <<"E", "4">>>>, <<<<"E", "7">>, <<"E", "5">>>>},
       max_ply |-> ShortPly, reload |-> FALSE, clocks |-> FALSE],
      \* castling rights: one rook each, black to move; either side castles or leaves the corner
      [fen |-> <<"r", "3", "k", "3", "/", "8", "/", "8", "/", "8", "/", "8", "/", "8", "/", "8", "/", "4", "K", "2", "R", " ", "b", " ", "K", "q", " ", "-", " ", "0", " ", "1">>,
       moves |-> {<<<<"E", "1">>, <<"G", "1">>>>, <<<<"H", "1">>, <<"H", "2">>>>, <<<<"E", "8">>, <<"C", "8">>>>, <<<<"A", "8">>, <<"A", "7">>>>},
       max_ply |-> ShortPly, reload |-> TRUE, clocks |-> FALSE],
      \* castling under attack: white rooks bear on b8 and f8, and can go to the d- or the e-file
      [fen |-> <<"r", "3", "k", "2", "r", "/", "8", "/", "8", "/", "8", "/", "8", "/", "8", "/", "8", "/", "1", "R", "3", "R", "K", "1", " ", "b", " ", "k", "q", " ", "-", " ", "0", " ", "1">>,
       moves |-> {<<<<"E", "8">>, <<"C", "8">>>>, <<<<"E", "8">>, <<"G", "8">>>>, <<<<"A", "8">>, <<"A", "7">>>>, <<<<"F", "1">>, <<"E", "1">>>>, <<<<"F", "1">>, <<"D", "1">>>>},
       max_ply |-> ShortPly, reload |-> FALSE, clocks |-> FALSE],
      \* bare kings: the position the material study starts from
      [fen |-> <<"4", "k", "3", "/", "8", "/", "8", "/", "8", "/", "8", "/", "8", "/", "8", "/", "4", "K", "3", " ", "w", " ", "-", " ", "-", " ", "0", " ", "1">>,
       moves |-> {<<<<"E", "1">>, <<"D", "1">>>>, <<<<"E", "8">>, <<"D", "8">>>>},
       max_ply |-> ShortPly, reload |-> FALSE, clocks |-> FALSE],
      \* the standard starting position, long enough for the a-pawn to promote on a8 and the black queen to reach e1
      [fen |-> DefaultFEN,
       moves |-> {<<<<"A", "2">>, <<"A", "4">>>>, <<<<"A", "4">>, <<"A", "5">>>>, <<<<"A", "5">>, <<"A", "6">>>>, <<<<"A", "6">>, <<"B", "7">>>>, <<<<"B", "7">>, <<"A", "8">>>>, <<<<"H", "2">>, <<"H", "3">>>>, <<<<"E", "7">>, <<"E", "6">>>>, <<<<"D", "8">>, <<"H", "4">>>>, <<<<"H", "7">>, <<"H", "6">>>>, <<<<"H", "6">>, <<"H", "5">>>>, <<<<"H", "4">>, <<"F", "2">>>>, <<<<"F", "2">>, <<"E", "1">>>>},
       max_ply |-> StartPly, reload |-> FALSE, clocks |-> FALSE],
      \* fifty moves: the kings walk rings of 8 and of 7 squares, so that no position comes back within 100 moves; the halfmove clock starts at 60 and the white pawn has one push, which resets it
      [fen |-> <<"7", "k", "/", "8", "/", "3", "p", "4", "/", "8", "/", "3", "P", "4", "/", "8", "/", "8", "/", "K", "7", " ", "w", " ", "-", " ", "-", " ", "6", "0", " ", "4", "0">>,
       moves |-> {<<<<"A", "1">>, <<"B", "1">>>>, <<<<"B", "1">>, <<"C", "1">>>>, <<<<"C", "1">>, <<"C", "2">>>>, <<<<"C", "2">>, <<"C", "3">>>>, <<<<"C", "3">>, <<"B", "3">>>>, <<<<"B", "3">>, <<"A", "3">>>>, <<<<"A", "3">>, <<"A", "2">>>>, <<<<"A", "2">>, <<"A", "1">>>>, <<<<"H", "8">>, <<"G", "8">>>>, <<<<"G", "8">>, <<"F", "8">>>>, <<<<"F", "8">>, <<"F", "7">>>>, <<<<"F", "7">>, <<"G", "6">>>>, <<<<"G", "6">>, <<"H", "6">>>>, <<<<"H", "6">>, <<"H", "7">>>>, <<<<"H", "7">>, <<"H", "8">>>>, <<<<"D", "4">>, <<"D", "5">>>>},
       max_ply |-> FiftyPly, reload |-> FALSE, clocks |-> FALSE]>>

\* the material study: the pieces the caller places and the squares it places
\* them on (A1, C1 and D2 are of one colour, B1 of the other)
MaterialGame == Len(Games) - 2

\* the long game from the standard starting position
StartGame == Len(Games) - 1

\* the promotion values the caller's moves onto the first or last rank carry
PromotionInputs == {NoneInt, WHITE_KNIGHT, BLACK_QUEEN}

\* the promotion values in game g: in the long game a pawn is also asked to
\* become a king
PromotionInputsOf(g) == IF g = StartGame THEN {NoneInt, WHITE_KING} ELSE PromotionInputs

\* the moves the caller submits in game g: a promotion value only with a
\* move onto the first or last rank
MoveInputs(g) ==
    {Move(m[1], m[2], NoneInt) : m \in Games[g].moves}
    \cup {Move(m[1], m[2], p) : m \in {x \in Games[g].moves : x[2][2] \in {"1", "8"}},
                                p \in PromotionInputsOf(g)}

\* the squares the caller's moves name in game g
GameSquares(g) == UNION {{m[1], m[2]} : m \in Games[g].moves}

\* every from/to pair over those squares, and the moves the caller submits:
\* the moves make_move is probed with where it changes nothing
ProbeMoves(g) ==
    MoveInputs(g) \cup {Move(f, t, NoneInt) : f \in GameSquares(g), t \in GameSquares(g)}

MaterialPieces == {NONE, WHITE_KNIGHT, WHITE_BISHOP, BLACK_KNIGHT, BLACK_BISHOP, WHITE_PAWN}
MaterialSquares == {A1, B1, C1, <<"D", "2">>}

\* the clock values the caller sets and the decrements it reports
TimerInputs == {<<NoneInt, NoneInt>>, <<1, 2>>, <<NoneInt, 2>>}
MsInputs == {1}

\* ----------------------------------------------------------- state machine
VARIABLES board, white_to_play, castling_rights, en_passant, halfmove, fullmove,
          king_positions, position_history, move_history, white_time, black_time,
          timers_enabled, timeout_result, moves_cache, game, op, ret

vars == <<board, white_to_play, castling_rights, en_passant, halfmove, fullmove,
          king_positions, position_history, move_history, white_time, black_time,
          timers_enabled, timeout_result, moves_cache, game, op, ret>>

\* the Board object
self ==
    [board |-> board, white_to_play |-> white_to_play, castling_rights |-> castling_rights,
     en_passant |-> en_passant, halfmove |-> halfmove, fullmove |-> fullmove,
     king_positions |-> king_positions, position_history |-> position_history,
     move_history |-> move_history, white_time |-> white_time, black_time |-> black_time,
     timers_enabled |-> timers_enabled, timeout_result |-> timeout_result,
     moves_cache |-> moves_cache]

\* the Board object in the next state is S
Becomes(S) ==
    /\ board' = S.board
    /\ white_to_play' = S.white_to_play
    /\ castling_rights' = S.castling_rights
    /\ en_passant' = S.en_passant
    /\ halfmove' = S.halfmove
    /\ fullmove' = S.fullmove
    /\ king_positions' = S.king_positions
    /\ position_history' = S.position_history
    /\ move_history' = S.move_history
    /\ white_time' = S.white_time
    /\ black_time' = S.black_time
    /\ timers_enabled' = S.timers_enabled
    /\ timeout_result' = S.timeout_result
    /\ moves_cache' = S.moves_cache

\* the Board object in this state is S
Is(S) ==
    /\ board = S.board
    /\ white_to_play = S.white_to_play
    /\ castling_rights = S.castling_rights
    /\ en_passant = S.en_passant
    /\ halfmove = S.halfmove
    /\ fullmove = S.fullmove
    /\ king_positions = S.king_positions
    /\ position_history = S.position_history
    /\ move_history = S.move_history
    /\ white_time = S.white_time
    /\ black_time = S.black_time
    /\ timers_enabled = S.timers_enabled
    /\ timeout_result = S.timeout_result
    /\ moves_cache = S.moves_cache

\* Chess.Board(fen) for one of the caller's games
Init ==
    /\ game \in 1..MaterialGame
    /\ Is(NewBoard(Games[game].fen))
    /\ op = "__init__"
    /\ ret = NoneInt

\* an exception no caller in the repository catches ends the run
Alive == op # "TypeError"

\* the call named `call` raises TypeError and leaves the object S behind
Raised(S, call) ==
    /\ Becomes(S)
    /\ op' = "TypeError"
    /\ ret' = call
    /\ UNCHANGED game

\* how many moves a game of the study applies: the game's own bound, and
\* ShortPly once moves are applied without the legality test
PlyBound(check_legal) ==
    IF check_legal THEN Games[game].max_ply ELSE ShortPly

\* board.make_move(move, check_legal), for every move the caller submits
MakeMove(check_legal) ==
    /\ Alive
    /\ IF is_game_over_raises(self)
       THEN Raised(after_get_moves_raised(self), "make_move")
       ELSE \E G \in {is_game_over_call(self)} :
                \E move \in MoveInputs(game) :
                    IF MakeMoveAfterRaises(G, move, check_legal)
                    THEN /\ Len(move_history) < PlyBound(check_legal)
                         /\ Raised(after_make_move_raised(G, move, check_legal), "make_move")
                    ELSE \E R \in {MakeMoveAfter(G, move, check_legal)} :
                             /\ R.exit = "applied" => Len(move_history) < PlyBound(check_legal)
                             /\ Becomes(R.self)
                             /\ op' = "make_move"
                             /\ ret' = R.ret
                             /\ UNCHANGED game

\* board.undo_move()
UndoMove ==
    /\ Alive
    /\ Becomes(undo_move(self))
    /\ op' = "undo_move"
    /\ ret' = NoneInt
    /\ UNCHANGED game

\* board.is_game_over()
IsGameOver ==
    /\ Alive
    /\ IF is_game_over_raises(self)
       THEN Raised(after_get_moves_raised(self), "is_game_over")
       ELSE /\ \E G \in {is_game_over_call(self)} : Becomes(G.self) /\ ret' = G.ret
            /\ op' = "is_game_over"
            /\ UNCHANGED game

\* board.get_moves()
GetMoves ==
    /\ Alive
    /\ IF get_moves_raises(self)
       THEN Raised(after_get_moves_raised(self), "get_moves")
       ELSE /\ \E L \in {get_moves_call(self)} : Becomes(L.self) /\ ret' = L.ret
            /\ op' = "get_moves"
            /\ UNCHANGED game

\* board.load_fen(board.get_fen())
Reload ==
    /\ Alive
    /\ Games[game].reload
    /\ Becomes(load_fen(self, get_fen(self)))
    /\ op' = "load_fen"
    /\ ret' = NoneInt
    /\ UNCHANGED game

\* board.set_timers(white_ms, black_ms)
SetTimers(white_ms, black_ms) ==
    /\ Alive
    /\ Games[game].clocks
    /\ Becomes(set_timers(self, white_ms, black_ms))
    /\ op' = "set_timers"
    /\ ret' = NoneInt
    /\ UNCHANGED game

\* board.decrement_current_player_timer(ms)
DecrementTimer(ms) ==
    /\ Alive
    /\ Games[game].clocks
    /\ Becomes(after_decrement_current_player_timer(self, ms))
    /\ op' = "decrement_current_player_timer"
    /\ ret' = decrement_current_player_timer(self, ms)
    /\ UNCHANGED game

\* board.set_piece(piece, square)
SetPiece(piece, square) ==
    /\ Becomes(set_piece(self, piece, square))
    /\ op' = "set_piece"
    /\ ret' = NoneInt
    /\ UNCHANGED game

\* board.is_insufficient_material()
IsInsufficientMaterial ==
    /\ Becomes(self)
    /\ op' = "is_insufficient_material"
    /\ ret' = is_insufficient_material(self)
    /\ UNCHANGED game

Next ==
    \/ MakeMove(TRUE)
    \/ UndoMove
    \/ IsGameOver
    \/ GetMoves
    \/ Reload
    \/ \E t \in TimerInputs : SetTimers(t[1], t[2])
    \/ \E ms \in MsInputs : DecrementTimer(ms)

Spec == Init /\ [][Next]_vars

\* The material study: pieces are placed on a board of two kings and
\* is_insufficient_material() is asked after each.
MaterialInit == Init /\ game = MaterialGame

MaterialNext ==
    \/ \E piece \in MaterialPieces, square \in MaterialSquares : SetPiece(piece, square)
    \/ IsInsufficientMaterial

SpecMaterial == MaterialInit /\ [][MaterialNext]_vars

\* Play: the caller only plays and takes back moves on the Board it
\* constructed (and asks for the moves and the state of the game); it never
\* reloads a position and runs no clocks.
PlayNext ==
    \/ MakeMove(TRUE)
    \/ UndoMove
    \/ IsGameOver
    \/ GetMoves

SpecPlay == Init /\ [][PlayNext]_vars

\* the games in which moves are also applied without the legality test:
\* check by a double push, castling rights
ForcedGames == {9, 12}

ForcedInit == Init /\ game \in ForcedGames

\* play with and without the legality test, undo, reload
ForcedNext == MakeMove(TRUE) \/ MakeMove(FALSE) \/ UndoMove \/ Reload

SpecForced == ForcedInit /\ [][ForcedNext]_vars

\* the long game from the standard starting position: legal moves and undo
StartInit ==
    /\ game = StartGame
    /\ Is(NewBoard(Games[game].fen))
    /\ op = "__init__"
    /\ ret = NoneInt

StartNext == MakeMove(TRUE) \/ UndoMove

SpecStart == StartInit /\ [][StartNext]_vars

\* the games played by make_move and undo_move alone: every position is
\* reached from the constructor's FEN by legal moves, some of them taken back
UndoNext == MakeMove(TRUE) \/ UndoMove

SpecUndo == Init /\ [][UndoNext]_vars

\* the games in which every run of legal moves ends within the moves the
\* caller applies: fifty, late repetition, late castling and the last game,
\* fifty moves; the Board after construction and a first is_game_over() call
FiftyInit ==
    /\ game \in {5, 8, 10, Len(Games)}
    /\ \E G \in {is_game_over_call(NewBoard(Games[game].fen))} : Is(G.self) /\ ret = G.ret
    /\ op = "is_game_over"

\* the caller has a move that make_move applies: the call returns, the game
\* is not over, the move is legal and the caller has moves left to apply
CanApply ==
    /\ Alive
    /\ ~is_game_over_raises(self)
    /\ Len(move_history) < PlyBound(TRUE)
    /\ \E G \in {is_game_over_call(self)} :
           \E move \in MoveInputs(game) :
               /\ ~MakeMoveAfterRaises(G, move, TRUE)
               /\ MakeMoveAfter(G, move, TRUE).exit = "applied"

\* weak fairness of the make_move that applies a move (the move history
\* grows), with its enabling condition spelled out as CanApply: a caller that
\* always has a move to apply goes on applying moves
FairCalls ==
    []<>(~CanApply) \/ []<><<Len(move_history') = Len(move_history) + 1>>_vars

\* the caller goes on calling make_move with the legality test on
SpecFifty == FiftyInit /\ [][MakeMove(TRUE)]_vars /\ FairCalls

\* ================================================================ properties
\* two Board objects that agree on every field but the legal-move cache
SameButCache(S, T) == [S EXCEPT !.moves_cache = <<>>] = [T EXCEPT !.moves_cache = <<>>]

\* the position was reached from the constructor's FEN by moves alone: the
\* position history holds the start position and one entry per move played
PlayedByMoves == ~timers_enabled /\ Len(position_history) = Len(move_history) + 1

\* how many squares of board b hold one of the pieces
CountOf(b, pieces) == Cardinality({rc \in (0..7) \X (0..7) : b[rc[1]][rc[2]] \in pieces})

\* how many entries of the history equal h
Occurrences(history, h) == Cardinality({i \in 1..Len(history) : history[i] = h})

\* ------------------------------------------------------------------------ C1
\* C1, as amended: in every reachable position in which is_game_over() does
\* not report over, for every move m of get_moves(), make_move(m) followed by
\* undo_move() restores the FEN and every field of the object but the
\* legal-move cache (board, side to move, castling rights, en passant target,
\* counters, king positions, position history, move history).
C1_UndoRestores ==
    \A G \in {is_game_over_call(self)} :
        ~G.ret.over =>
            \A moves \in {get_moves(self)} :
                \A i \in 1..Len(moves) :
                    \A U \in {undo_move(MakeMoveAfter(G, moves[i], TRUE).self)} :
                        /\ get_fen(U) = get_fen(self)
                        /\ SameButCache(U, self)

\* C1, witness: a move was made and undone, and the object is the constructed
\* one again, with the cache still holding the moves of the position left
C1_Witness ==
    /\ op = "undo_move"
    /\ moves_cache.hash # <<>>
    /\ moves_cache.hash # get_position_hash(self)
    /\ SameButCache(self, NewBoard(Games[game].fen))

\* C1, as stated: for every position reached from a loaded FEN by legal moves
\* and every move m of get_moves(), make_move(m) followed by undo_move()
\* restores the FEN, the king positions and both histories.
C1_AsStated ==
    PlayedByMoves =>
        \A G \in {is_game_over_call(self)} :
            \A moves \in {get_moves(self)} :
                \A i \in 1..Len(moves) :
                    \A U \in {undo_move(MakeMoveAfter(G, moves[i], TRUE).self)} :
                        /\ get_fen(U) = get_fen(self)
                        /\ U.king_positions = king_positions
                        /\ U.position_history = position_history
                        /\ U.move_history = move_history

\* ------------------------------------------------------------------------ C2
\* both kings stand on board b
BothKings(b) == CountOf(b, {WHITE_KING}) > 0 /\ CountOf(b, {BLACK_KING}) > 0

\* C2: in every position with both kings on the board (and the game not over,
\* so that make_move applies the move), every move of get_moves(), applied
\* with make_move, leaves the king of the side that moved on a square the
\* opponent does not attack.
C2_LegalitySound ==
    \A G \in {is_game_over_call(self)} :
        (PlayedByMoves /\ BothKings(board) /\ ~G.ret.over) =>
            \A moves \in {get_moves(self)} :
                \A i \in 1..Len(moves) :
                    \A A \in {MakeMoveAfter(G, moves[i], TRUE).self} :
                        \A k \in {LastSquareWith(A.board, IF white_to_play THEN WHITE_KING
                                                          ELSE BLACK_KING)} :
                            ~is_square_attacked(A.board, k.r, k.c, ~white_to_play)

\* ------------------------------------------------------------------------ C3
\* C3: for every position reached by moves from a loaded FEN, a Board
\* constructed from get_fen() has the same board, side to move, castling
\* rights and en passant target, the same position hash and the same
\* get_moves().
C3_PositionRoundTrip ==
    PlayedByMoves =>
        \A L \in {NewBoard(get_fen(self))} :
            /\ L.board = board
            /\ L.white_to_play = white_to_play
            /\ L.castling_rights = castling_rights
            /\ L.en_passant = en_passant
            /\ get_position_hash(L) = get_position_hash(self)
            /\ get_moves(L) = get_moves(self)

\* ------------------------------------------------------------------------ C4
\* C4: for every FEN string f that get_fen() produces, load_fen(f) followed
\* by get_fen() returns exactly f.
C4_FenTextRoundTrip ==
    \A f \in {get_fen(self)} : get_fen(load_fen(self, f)) = f

\* C4, witness: the position after the double push d7-d5 was reloaded from
\* its own FEN, whose en passant field is d6
C4_Witness ==
    /\ op = "load_fen"
    /\ en_passant = <<"d", "6">>
    /\ fullmove = 2

\* ------------------------------------------------------------------------ C5
\* C5: when the game is not over and make_move(move, check_legal=True) is
\* given a from/to pair that no move of get_moves() has, it returns over=true,
\* reason 'illegal move', winner the opponent of the side to move,
\* require_sync=false.
C5_IllegalMoveForfeits ==
    \A G \in {is_game_over_call(self)} :
        ~G.ret.over =>
            \A moves \in {get_moves(self)} :
                \A m \in ProbeMoves(game) :
                    (~\E i \in 1..Len(moves) :
                          moves[i].from_sq = m.from_sq /\ moves[i].to_sq = m.to_sq)
                    => MakeMoveAfter(G, m, TRUE).ret
                           = [over |-> TRUE, reason |-> "illegal move",
                              winner |-> IF white_to_play THEN "black" ELSE "white",
                              require_sync |-> FALSE]

\* C5, witness: black, to move, submitted an illegal move and white was
\* declared the winner
C5_Witness ==
    /\ op = "make_move"
    /\ ~white_to_play
    /\ ret = [over |-> TRUE, reason |-> "illegal move", winner |-> "white",
              require_sync |-> FALSE]

\* ------------------------------------------------------------------------ C6
\* C6: when is_game_over() reports over, make_move returns the same reason and
\* winner with require_sync=false and changes no field but (possibly) the
\* legal-move cache, for every move and either value of check_legal.
C6_OverGameUnchanged ==
    \A G \in {is_game_over_call(self)} :
        G.ret.over =>
            \A m \in ProbeMoves(game), check_legal \in BOOLEAN :
                \A R \in {MakeMoveAfter(G, m, check_legal)} :
                    /\ R.ret = [over |-> TRUE, reason |-> G.ret.reason,
                                winner |-> G.ret.winner, require_sync |-> FALSE]
                    /\ SameButCache(R.self, self)

\* C6, witness: make_move was called after white's flag fell, and returned the
\* timeout
C6_Witness ==
    /\ op = "make_move"
    /\ ret = [over |-> TRUE, reason |-> "timeout", winner |-> "black",
              require_sync |-> FALSE]
    /\ white_time = 0

\* ------------------------------------------------------------------------ C7
\* C7: is_game_over() reports the first condition that holds, in the order
\* latched timeout (won by the side whose clock did not run out), 50-move
\* rule, insufficient material, threefold repetition, no legal moves.
C7_TerminalPrecedence ==
    \A r \in {is_game_over(self)} :
        \A latched \in {timers_enabled /\ timeout_result # NoneResult},
           material \in {is_insufficient_material(self)},
           repetition \in {is_threefold_repetition(self)} :
            /\ latched =>
                   /\ r = [over |-> TRUE, reason |-> "timeout", winner |-> timeout_result.winner]
                   /\ r.winner = "black" => white_time = 0
                   /\ r.winner = "white" => black_time = 0
                   /\ r.winner \in {"black", "white"}
            /\ (~latched /\ halfmove >= 100) =>
                   r = [over |-> TRUE, reason |-> "50-move rule", winner |-> "draw"]
            /\ (~latched /\ halfmove < 100 /\ material) =>
                   r = [over |-> TRUE, reason |-> "insufficient material", winner |-> "draw"]
            /\ (~latched /\ halfmove < 100 /\ ~material /\ repetition) =>
                   r = [over |-> TRUE, reason |-> "threefold repetition", winner |-> "draw"]
            /\ (~latched /\ halfmove < 100 /\ ~material /\ ~repetition) =>
                   r.reason \in {"checkmate", "stalemate", "None"}

\* C7, witness: is_game_over() reported the 50-move rule in a position in
\* which the side to move is checkmated
C7_Witness ==
    /\ op = "is_game_over"
    /\ ret = [over |-> TRUE, reason |-> "50-move rule", winner |-> "draw"]
    /\ GenerateLegalMoves(self) = <<>>
    /\ is_king_attacked(self, white_to_play)

\* ------------------------------------------------------------------------ C8
\* the king of the side to move stands on a square the opponent attacks
MoverInCheck ==
    \E rc \in (0..7) \X (0..7) :
        /\ board[rc[1]][rc[2]] = (IF white_to_play THEN WHITE_KING ELSE BLACK_KING)
        /\ is_square_attacked(board, rc[1], rc[2], ~white_to_play)

\* C8: when no timeout is latched, halfmove < 100, the material is sufficient
\* and the position is no threefold repetition, is_game_over() reports
\* 'checkmate', won by the opponent of the side to move, if get_moves() is
\* empty and the king of the side to move is attacked, 'stalemate', a draw, if
\* get_moves() is empty and it is not, and over=false otherwise.
C8_NoMovesOutcome ==
    (/\ ~(timers_enabled /\ timeout_result # NoneResult)
     /\ halfmove < 100
     /\ ~is_insufficient_material(self)
     /\ ~is_threefold_repetition(self))
    => \A r \in {is_game_over(self)}, moves \in {get_moves(self)} :
           IF moves = <<>>
           THEN IF MoverInCheck
                THEN r = [over |-> TRUE, reason |-> "checkmate",
                          winner |-> IF white_to_play THEN "black" ELSE "white"]
                ELSE r = [over |-> TRUE, reason |-> "stalemate", winner |-> "draw"]
           ELSE r = [over |-> FALSE, reason |-> "None", winner |-> "None"]

\* C8, witness: is_game_over() reported that black is checkmated
C8_Witness ==
    /\ op = "is_game_over"
    /\ ret = [over |-> TRUE, reason |-> "checkmate", winner |-> "white"]
    /\ ~white_to_play
    /\ halfmove < 100

\* ------------------------------------------------------------------------ C9
\* C9, as amended: is_threefold_repetition() is true exactly when the position
\* history has at least 4 entries and holds the hash of the current position
\* at least 3 times; a move that make_move applies and that brings a position
\* back for the third time returns over=true, reason 'threefold repetition',
\* winner 'draw', provided the halfmove clock is below 100 after it; and
\* make_move returns that reason for no move before the third occurrence.
C9_ThreefoldRepetition ==
    /\ is_threefold_repetition(self)
           <=> /\ Len(position_history) >= 4
               /\ Occurrences(position_history, get_position_hash(self)) >= 3
    /\ \A G \in {is_game_over_call(self)} :
           ~G.ret.over =>
               \A m \in MoveInputs(game) :
                   \A R \in {MakeMoveAfter(G, m, TRUE)} :
                       R.exit = "applied" =>
                           \A n \in {Occurrences(R.self.position_history,
                                                 get_position_hash(R.self))} :
                               /\ (n >= 3 /\ R.self.halfmove < 100) =>
                                      /\ R.ret.over
                                      /\ R.ret.reason = "threefold repetition"
                                      /\ R.ret.winner = "draw"
                               /\ R.ret.reason = "threefold repetition" => n >= 3

\* C9, witness: the eighth move of the shuffle brought the start position
\* back for the third time and make_move returned the draw
C9_Witness ==
    /\ op = "make_move"
    /\ ret = [over |-> TRUE, reason |-> "threefold repetition", winner |-> "draw",
              require_sync |-> FALSE]
    /\ Len(move_history) = 8
    /\ Occurrences(position_history, get_position_hash(self)) = 3

\* C9, as stated: whenever the moves played were all non-pawn, non-capture
\* moves and the last of them brings a position back for the third time,
\* make_move returns over=true with reason
\* 'threefold repetition' and winner 'draw'.
C9_AsStated ==
    PlayedByMoves =>
        \A G \in {is_game_over_call(self)} :
            ~G.ret.over =>
                \A m \in MoveInputs(game) :
                    \A R \in {MakeMoveAfter(G, m, TRUE)} :
                        (/\ R.exit = "applied"
                         /\ R.self.halfmove = Len(R.self.move_history) + NewBoard(Games[game].fen).halfmove
                         /\ Occurrences(R.self.position_history, get_position_hash(R.self)) >= 3)
                        => /\ R.ret.over
                           /\ R.ret.reason = "threefold repetition"
                           /\ R.ret.winner = "draw"

\* ----------------------------------------------------------------------- C10
\* C10: is_insufficient_material() is true exactly when neither side has a
\* pawn, rook or queen and either there is no minor piece, or one bishop and
\* no knight, or one knight and no bishop, or no knight and two or more
\* bishops all on squares of one colour; with it, and halfmove < 100 and no
\* timeout, is_game_over() reports the draw 'insufficient material'.
C10_InsufficientMaterial ==
    \A bishops \in {{rc \in (0..7) \X (0..7) : board[rc[1]][rc[2]] \in {WHITE_BISHOP, BLACK_BISHOP}}},
       knights \in {CountOf(board, {WHITE_KNIGHT, BLACK_KNIGHT})},
       heavy \in {CountOf(board, {WHITE_PAWN, WHITE_ROOK, WHITE_QUEEN,
                                  BLACK_PAWN, BLACK_ROOK, BLACK_QUEEN})} :
        /\ is_insufficient_material(self)
               <=> /\ heavy = 0
                   /\ \/ bishops = {} /\ knights = 0
                      \/ Cardinality(bishops) = 1 /\ knights = 0
                      \/ knights = 1 /\ bishops = {}
                      \/ /\ knights = 0
                         /\ Cardinality(bishops) >= 2
                         /\ \A x \in bishops, y \in bishops :
                                (x[1] + x[2]) % 2 = (y[1] + y[2]) % 2
        /\ (heavy = 0 /\ knights = 0 /\ Cardinality(bishops) = 1 /\ halfmove < 100
            /\ ~timers_enabled)
           => is_game_over(self) = [over |-> TRUE, reason |-> "insufficient material",
                                    winner |-> "draw"]
        /\ (heavy = 0 /\ knights = 2 /\ bishops = {}) => ~is_insufficient_material(self)

\* C10, witness: is_insufficient_material() returned true for two kings and
\* two bishops on squares of one colour
C10_Witness ==
    /\ op = "is_insufficient_material"
    /\ ret = TRUE
    /\ CountOf(board, {WHITE_BISHOP, BLACK_BISHOP}) = 2
    /\ CountOf(board, {NONE}) = 60

\* ----------------------------------------------------------------------- C11
\* the four castlings: the king, its squares, the rook, its corner and the
\* square it lands on, the rights bit the castling needs and the two bits of
\* the mover
Castlings ==
    {[king |-> WHITE_KING, from_sq |-> E1, to_sq |-> G1, rook |-> WHITE_ROOK,
      corner |-> H1, rook_sq |-> F1, bit |-> 1, own |-> {1, 2}],
     [king |-> WHITE_KING, from_sq |-> E1, to_sq |-> C1, rook |-> WHITE_ROOK,
      corner |-> A1, rook_sq |-> D1, bit |-> 2, own |-> {1, 2}],
     [king |-> BLACK_KING, from_sq |-> E8, to_sq |-> G8, rook |-> BLACK_ROOK,
      corner |-> H8, rook_sq |-> F8, bit |-> 4, own |-> {4, 8}],
     [king |-> BLACK_KING, from_sq |-> E8, to_sq |-> C8, rook |-> BLACK_ROOK,
      corner |-> A8, rook_sq |-> D8, bit |-> 8, own |-> {4, 8}]}

\* the piece standing on a square of board b, read from the grid itself
PieceOn(b, square) == b[8 - DigitVal(square[2])][Ord(square[1]) - 65]

\* C11: when the game is not over and make_move applies a castling move (the
\* king goes from E1/E8 to G1/G8 or C1/C8, the matching rights bit is set and
\* the move is in get_moves()), the king stands on the destination, the rook
\* has left its corner for the square the king crossed, E and the corner are
\* empty, both castling bits of the mover are cleared and require_sync is true.
C11_CastlingApplied ==
    \A G \in {is_game_over_call(self)} :
        ~G.ret.over =>
            \A m \in {x \in MoveInputs(game) : \E k \in Castlings : x.from_sq = k.from_sq} :
                \A R \in {MakeMoveAfter(G, m, TRUE)}, k \in Castlings :
                    (/\ R.exit = "applied"
                     /\ PieceOn(board, k.from_sq) = k.king
                     /\ PieceOn(board, k.corner) = k.rook
                     /\ m.from_sq = k.from_sq /\ m.to_sq = k.to_sq
                     /\ HasBit(castling_rights, k.bit))
                    => /\ PieceOn(R.self.board, k.to_sq) = k.king
                       /\ PieceOn(R.self.board, k.rook_sq) = k.rook
                       /\ PieceOn(R.self.board, k.from_sq) = NONE
                       /\ PieceOn(R.self.board, k.corner) = NONE
                       /\ \A bit \in k.own : ~HasBit(R.self.castling_rights, bit)
                       /\ R.ret.require_sync

\* C11, witness: white has castled kingside and black queenside, each in one
\* make_move that returned require_sync = true
C11_Witness ==
    /\ op = "make_move"
    /\ Len(move_history) = 2
    /\ move_history[1].castling_move /\ move_history[1].move.to_sq = G1
    /\ move_history[2].castling_move /\ move_history[2].move.to_sq = C8
    /\ ret.require_sync
    /\ PieceOn(board, F1) = WHITE_ROOK /\ PieceOn(board, D8) = BLACK_ROOK
    /\ castling_rights = 0

\* ----------------------------------------------------------------------- C12
\* the last move played was a double pawn push made by make_move: the pawn
\* stands where it landed and the en passant target is the square it skipped
JustDoublePushed ==
    /\ move_history # <<>>
    /\ \E last \in {move_history[Len(move_history)]} :
        /\ last.from_piece \in {WHITE_PAWN, BLACK_PAWN}
        /\ EnPassantAfter(last.move, last.from_piece) # NoneStr
        /\ en_passant = EnPassantAfter(last.move, last.from_piece)
        /\ PieceOn(board, last.move.to_sq) = last.from_piece
        /\ white_to_play = (last.from_piece = BLACK_PAWN)

\* the squares beside `square` on its rank
Beside(square) ==
    {<<FILES[i], square[2]>> : i \in {j \in 1..8 : Abs(j - (Ord(square[1]) - 64)) = 1}}

\* board b after the pawn on from_sq takes the pawn on cap_sq en passant and
\* lands on to_sq
AfterEnPassant(b, from_sq, to_sq, cap_sq) ==
    [r \in 0..7 |-> [c \in 0..7 |->
        IF <<FILES[c + 1], RANKS[r + 1]>> = to_sq THEN PieceOn(b, from_sq)
        ELSE IF <<FILES[c + 1], RANKS[r + 1]>> \in {from_sq, cap_sq} THEN NONE
        ELSE b[r][c]]]

\* on board b a king of the given colour stands on a square the other side
\* attacks
KingAttackedOn(b, is_white) ==
    \E r \in 0..7, c \in 0..7 :
        /\ b[r][c] = (IF is_white THEN WHITE_KING ELSE BLACK_KING)
        /\ is_square_attacked(b, r, c, ~is_white)

\* C12: in a position reached by make_move in which a pawn has just advanced
\* two squares and stands beside an enemy pawn, and the game is not over, the
\* capture by that enemy pawn onto the skipped square is in get_moves() unless
\* it leaves the capturer's king attacked; and when it is there, applying it
\* puts the capturing pawn on the skipped square, empties the square of the
\* double-pushed pawn, resets halfmove to 0 and returns require_sync = true.
C12_EnPassant ==
    JustDoublePushed =>
        \A G \in {is_game_over_call(self)} :
            ~G.ret.over =>
                \A last \in {move_history[Len(move_history)]} :
                    \A from_sq \in Beside(last.move.to_sq) :
                        \A capturer \in {IF white_to_play THEN WHITE_PAWN ELSE BLACK_PAWN} :
                            PieceOn(board, from_sq) = capturer =>
                                \A m \in {Move(from_sq, en_passant, NoneInt)} :
                                    /\ ~KingAttackedOn(AfterEnPassant(board, from_sq, en_passant, last.move.to_sq),
                                                       white_to_play)
                                       => InLegalMoves(get_moves(self), m)
                                    /\ InLegalMoves(get_moves(self), m) =>
                                        \A R \in {MakeMoveAfter(G, m, TRUE)} :
                                            /\ R.exit = "applied"
                                            /\ PieceOn(R.self.board, en_passant) = capturer
                                            /\ PieceOn(R.self.board, from_sq) = NONE
                                            /\ PieceOn(R.self.board, last.move.to_sq) = NONE
                                            /\ R.self.halfmove = 0
                                            /\ R.ret.require_sync

\* ----------------------------------------------------------------------- C13
\* between boards b and b2 a castling took place: king and rook of one of the
\* four castlings left E and the corner for their castled squares
Castled(b, b2, m) ==
    \E k \in Castlings :
        /\ m.from_sq = k.from_sq /\ m.to_sq = k.to_sq
        /\ PieceOn(b, k.from_sq) = k.king /\ PieceOn(b, k.corner) = k.rook
        /\ PieceOn(b2, k.to_sq) = k.king /\ PieceOn(b2, k.rook_sq) = k.rook
        /\ PieceOn(b2, k.from_sq) = NONE /\ PieceOn(b2, k.corner) = NONE

\* between boards b and b2 a pawn took a pawn en passant: it changed file onto
\* an empty square and the enemy pawn behind that square left the board
TookEnPassant(b, b2, m) ==
    \E pawn \in {PieceOn(b, m.from_sq)} :
        /\ pawn \in {WHITE_PAWN, BLACK_PAWN}
        /\ m.from_sq[1] # m.to_sq[1]
        /\ PieceOn(b, m.to_sq) = NONE
        /\ \E cap_sq \in {<<m.to_sq[1], IF pawn = WHITE_PAWN THEN "5" ELSE "4">>} :
            /\ PieceOn(b, cap_sq) = (IF pawn = WHITE_PAWN THEN BLACK_PAWN ELSE WHITE_PAWN)
            /\ PieceOn(b2, cap_sq) = NONE
        /\ PieceOn(b2, m.to_sq) = pawn

\* between boards b and b2 a pawn left its square for its last rank, where
\* the piece of the promotion stands (whatever piece was asked for)
Promoted(b, b2, m) ==
    \E pawn \in {PieceOn(b, m.from_sq)} :
        /\ pawn \in {WHITE_PAWN, BLACK_PAWN}
        /\ m.to_sq[2] = (IF pawn = WHITE_PAWN THEN "8" ELSE "1")
        /\ PieceOn(b2, m.from_sq) = NONE
        /\ PieceOn(b2, m.to_sq) # NONE

\* the result R of a make_move(m) call on this object asks for
\* synchronisation exactly when the call applied a castling, an en passant
\* capture or a promotion, and a call that applied nothing changed nothing
SyncAsApplied(result, m) ==
    \A R \in {result} :
        IF R.exit = "applied"
        THEN R.ret.require_sync <=>
                \/ Castled(board, R.self.board, m)
                \/ TookEnPassant(board, R.self.board, m)
                \/ Promoted(board, R.self.board, m)
        ELSE /\ ~R.ret.require_sync
             /\ SameButCache(R.self, self)

\* C13: for every make_move call, with legality enforced or not, the returned
\* require_sync is true exactly when the call applied a castling, an en
\* passant capture or a pawn promotion; it is false for every other applied
\* move and for every call that applies nothing (game already over, illegal
\* move), and the same holds when the applied move ends the game.
C13_RequireSync ==
    \A G \in {is_game_over_call(self)} :
        /\ \A m \in ProbeMoves(game) : SyncAsApplied(MakeMoveAfter(G, m, TRUE), m)
        /\ \A m \in MoveInputs(game) : SyncAsApplied(MakeMoveAfter(G, m, FALSE), m)

\* C13, witness: a castling was applied with the halfmove clock at 99, and
\* make_move returned the 50-move draw with require_sync = true
C13_Witness ==
    /\ op = "make_move"
    /\ ret = MoveResult(TRUE, "50-move rule", "draw", TRUE)
    /\ halfmove = 100
    /\ move_history # <<>>
    /\ move_history[Len(move_history)].castling_move

\* ----------------------------------------------------------------------- C14
\* the decrements the property is stated for
MsProbes == {0, 1, 2}

\* two Board objects that agree on every field but the clocks and the latch
SameButClocks(S, T) ==
    [S EXCEPT !.white_time = NoneInt, !.black_time = NoneInt, !.timeout_result = NoneResult]
    = [T EXCEPT !.white_time = NoneInt, !.black_time = NoneInt, !.timeout_result = NoneResult]

\* the remaining time of a side of object S
TimeOf(S, is_white) == IF is_white THEN S.white_time ELSE S.black_time

\* C14: decrement_current_player_timer(ms), with clocks enabled and a clock
\* for the side to move, subtracts ms from that side's time only; when the
\* result is <= 0 the time becomes exactly 0, a timeout won by the opponent is
\* latched and the call returns true, otherwise the latch is untouched and the
\* call returns false; with clocks disabled or no clock for the side to move
\* the call changes nothing and returns false. No clock is ever negative.
C14_DecrementTimer ==
    /\ \A ms \in MsProbes :
        \A A \in {after_decrement_current_player_timer(self, ms)} :
            \A returned \in {decrement_current_player_timer(self, ms)} :
                /\ SameButClocks(A, self)
                /\ TimeOf(A, ~white_to_play) = TimeOf(self, ~white_to_play)
                /\ IF timers_enabled /\ TimeOf(self, white_to_play) # NoneInt
                   THEN IF TimeOf(self, white_to_play) - ms <= 0
                        THEN /\ TimeOf(A, white_to_play) = 0
                             /\ A.timeout_result =
                                    [winner |-> IF white_to_play THEN "black" ELSE "white",
                                     reason |-> "timeout"]
                             /\ returned = TRUE
                        ELSE /\ TimeOf(A, white_to_play) = TimeOf(self, white_to_play) - ms
                             /\ A.timeout_result = timeout_result
                             /\ returned = FALSE
                   ELSE A = self /\ returned = FALSE
    /\ white_time \in {NoneInt} \cup (0..1)
    /\ black_time \in {NoneInt} \cup (0..2)

\* C14, witness: white's clock ran out: the call returned true, white's time
\* is 0, black's is untouched and black's win on time is latched
C14_Witness ==
    /\ op = "decrement_current_player_timer"
    /\ ret = TRUE
    /\ white_to_play
    /\ white_time = 0 /\ black_time = 2
    /\ timeout_result = [winner |-> "black", reason |-> "timeout"]

\* ----------------------------------------------------------------------- C15
\* C15: once a timeout is latched, every later make_move, undo_move and
\* decrement_current_player_timer call (every call but set_timers) leaves the
\* latched winner and reason those of the first timeout.
C15_TimeoutLatch ==
    [][(timeout_result # NoneResult /\ op' # "set_timers")
        => timeout_result' = timeout_result]_vars

\* ----------------------------------------------------------------------- C16
\* C16: the text of every move of get_moves() is the lower-case from-square
\* followed by the lower-case to-square and, for a promotion move, exactly one
\* further character, a digit; for the promotion pieces of both colours.
C16_MoveText ==
    \A moves \in {get_moves(self)} :
        \A i \in 1..Len(moves) :
            \A text \in {Move_repr(moves[i])} :
                /\ SubSeq(text, 1, 4) = Lower(moves[i].from_sq) \o Lower(moves[i].to_sq)
                /\ IF moves[i].promotion \in {WHITE_QUEEN, WHITE_ROOK, WHITE_BISHOP, WHITE_KNIGHT,
                                              BLACK_QUEEN, BLACK_ROOK, BLACK_BISHOP, BLACK_KNIGHT}
                   THEN Len(text) = 5 /\ IsDigit(text[5])
                   ELSE Len(text) = 4

\* ----------------------------------------------------------------------- C17
\* the 20 moves of the standard starting position: a single and a double push
\* for each white pawn, and two jumps for each white knight
StartingMoves ==
    {Move(<<FILES[i], "2">>, <<FILES[i], rank>>, NoneInt) : i \in 1..8, rank \in {"3", "4"}}
    \cup {Move(<<"B", "1">>, <<"A", "3">>, NoneInt), Move(<<"B", "1">>, <<"C", "3">>, NoneInt),
          Move(<<"G", "1">>, <<"F", "3">>, NoneInt), Move(<<"G", "1">>, <<"H", "3">>, NoneInt)}

\* C17: in the standard starting position get_moves() returns exactly 20
\* moves: the 16 pawn moves (a single and a double push for each of the 8
\* white pawns) and the 4 knight moves.
C17_StartingMoves ==
    get_fen(self) = DefaultFEN =>
        \A moves \in {get_moves_call(self).ret} :
            /\ Len(moves) = 20
            /\ {moves[i] : i \in 1..Len(moves)} = StartingMoves
            /\ Cardinality({i \in 1..Len(moves) : PieceOn(board, moves[i].from_sq) = WHITE_PAWN}) = 16
            /\ Cardinality({i \in 1..Len(moves) : PieceOn(board, moves[i].from_sq) = WHITE_KNIGHT}) = 4

\* C17, witness: get_moves() was called on the Board constructed from
\* DefaultFEN and returned 20 moves
C17_Witness ==
    /\ op = "get_moves"
    /\ Games[game].fen = DefaultFEN
    /\ move_history = <<>>
    /\ get_fen(self) = DefaultFEN
    /\ Len(ret) = 20

\* ----------------------------------------------------------------------- C18
\* C18: undo_move() on a Board whose move history is empty changes nothing:
\* board, side to move, castling rights, en passant target, counters, king
\* positions and position history are those of before the call.
C18_UndoOnEmptyHistory ==
    move_history = <<>> =>
        \A U \in {undo_move(self)} :
            /\ U = self
            /\ get_fen(U) = get_fen(self)
            /\ U.king_positions = king_positions
            /\ U.position_history = position_history

\* C18, witness: undo_move() was called on a Board just constructed, which
\* still is the constructed Board, its position history holding the hash of
\* the loaded position
C18_Witness ==
    /\ op = "undo_move"
    /\ move_history = <<>>
    /\ moves_cache.hash = <<>>
    /\ Is(NewBoard(Games[game].fen))
    /\ position_history = <<get_position_hash(self)>>

\* ----------------------------------------------------------------------- C19
\* the cached square `cached` is the square of board b on which `king` stands
CachedKingStands(b, king, cached) ==
    \E r \in 0..7, c \in 0..7 : b[r][c] = king /\ cached = [r |-> r, c |-> c]

\* C19: after any sequence of load_fen, legality-enforced make_move and
\* undo_move from a position with one king per side, the cached white and
\* black king squares are the squares on which the white and the black king
\* stand on the board.
C19_KingCache ==
    /\ CachedKingStands(board, WHITE_KING, king_positions.white)
    /\ CachedKingStands(board, BLACK_KING, king_positions.black)

\* ----------------------------------------------------------------------- C20
\* the histories of object S
Histories(S) == <<S.position_history, S.move_history>>

C21_CacheCoherence ==
    (Alive /\ moves_cache.hash = get_position_hash(self)) =>
        /\ ~filter_legal_moves_raises(self, PseudoLegalFrom(self, 0))
        /\ moves_cache.moves = GenerateLegalMoves(self)

\* ---------------------------------------------------------------------------
\* the castling bits
CastlingBits == {1, 2, 4, 8}

\* every castling bit of `after` is a bit of `before`
RightsWithin(after, before) ==
    \A bit \in CastlingBits : HasBit(after, bit) => HasBit(before, bit)

\* C22: castling rights never grow under make_move.  Whatever move is
\* submitted, with or without the legality test, the castling bits after the
\* call are among those before it; a step that sets a bit again is an
\* undo_move or a load_fen.
C22_CastlingRightsMonotone ==
    [][~RightsWithin(castling_rights', castling_rights)
           => op' \in {"undo_move", "load_fen"}]_vars

\* white's rook has left its corner out of turn, which only a call without
\* the legality test applies, and white's kingside right went with it;
\* undo_move gives it back
C22_Witness ==
    /\ op = "make_move"
    /\ move_history # <<>>
    /\ \E last \in {move_history[Len(move_history)]} :
           /\ last.from_piece = WHITE_ROOK
           /\ last.move.from_sq = H1
           /\ white_to_play
           /\ HasBit(last.castling_rights, 1)
           /\ ~HasBit(castling_rights, 1)
           /\ undo_move(self).castling_rights = last.castling_rights

\* ---------------------------------------------------------------------------
\* this step is a make_move that applied a move (the move history grew)
MoveJustApplied ==
    /\ op' = "make_move"
    /\ Len(move_history') = Len(move_history) + 1

\* on the board b, the move m is a pawn advancing two squares from its
\* starting rank
DoublePush(b, m) ==
    /\ m.from_sq[1] = m.to_sq[1]
    /\ \/ PieceOn(b, m.from_sq) = WHITE_PAWN /\ m.from_sq[2] = "2" /\ m.to_sq[2] = "4"
       \/ PieceOn(b, m.from_sq) = BLACK_PAWN /\ m.from_sq[2] = "7" /\ m.to_sq[2] = "5"

\* the square a pawn advancing two squares passes over
PassedOver(m) == <<m.from_sq[1], IF m.from_sq[2] = "2" THEN "3" ELSE "6">>

\* C23: the en passant window.  After every applied legal make_move the en
\* passant target is the square passed over if the move was a pawn advancing
\* two squares from its starting rank, and is empty after every other applied
\* move: a target never survives a second move.
C23_EnPassantWindow ==
    [][MoveJustApplied =>
           \E m \in {move_history'[Len(move_history')].move} :
               en_passant' = IF DoublePush(board, m) THEN PassedOver(m) ELSE NoneStr]_vars

\* a move has been applied in answer to a double push, and the target the
\* double push had set is gone
C23_Witness ==
    /\ op = "make_move"
    /\ Len(move_history) >= 2
    /\ en_passant = NoneStr
    /\ move_history[Len(move_history)].prev_en_passant = <<"D", "6">>
    /\ move_history[Len(move_history) - 1].from_piece = BLACK_PAWN
    /\ move_history[Len(move_history) - 1].move.to_sq = <<"D", "5">>

\* ---------------------------------------------------------------------------
\* on board b the square is attacked by the given side
SquareAttacked(b, square, by_white) ==
    is_square_attacked(b, 8 - DigitVal(square[2]), Ord(square[1]) - 65, by_white)

\* the squares between the king and the rook of a castling
BetweenKingAndRook(c) ==
    IF c.to_sq[1] = "G" THEN {<<"F", c.to_sq[2]>>, <<"G", c.to_sq[2]>>}
    ELSE {<<"D", c.to_sq[2]>>, <<"C", c.to_sq[2]>>, <<"B", c.to_sq[2]>>}

\* the conditions of a castling, read off the position: king at home, right
\* held, king not attacked, the way to the rook empty, the square crossed and
\* the square reached not attacked
MayCastle(c) ==
    /\ PieceOn(board, c.from_sq) = c.king
    /\ HasBit(castling_rights, c.bit)
    /\ ~SquareAttacked(board, c.from_sq, ~white_to_play)
    /\ \A square \in BetweenKingAndRook(c) : PieceOn(board, square) = NONE
    /\ \A square \in {c.rook_sq, c.to_sq} : ~SquareAttacked(board, square, ~white_to_play)

\* C24: castling generation.  get_moves() holds a castling move of the side to
\* move exactly when the king is on its home square, the matching right is
\* held, the king is not attacked, every square between king and rook is empty
\* and the two squares the king crosses and reaches are not attacked; an attack
\* on the queenside b-file square does not count.
C24_CastlingGenerated ==
    (Alive /\ ~get_moves_raises(self)) =>
        \A legal_moves \in {get_moves(self)} :
            \A c \in {x \in Castlings : PieceIsWhite(x.king) = white_to_play} :
                InLegalMoves(legal_moves, Move(c.from_sq, c.to_sq, NoneInt)) <=> MayCastle(c)

\* get_moves() has answered: black may castle queenside although white
\* attacks b8, and may not castle kingside, where white attacks f8
C24_Witness ==
    /\ op = "get_moves"
    /\ ~white_to_play
    /\ SquareAttacked(board, <<"B", "8">>, TRUE)
    /\ InLegalMoves(ret, Move(E8, C8, NoneInt))
    /\ HasBit(castling_rights, 4)
    /\ PieceOn(board, <<"F", "8">>) = NONE /\ PieceOn(board, <<"G", "8">>) = NONE
    /\ ~InLegalMoves(ret, Move(E8, G8, NoneInt))

\* ---------------------------------------------------------------------------
\* this step is a make_move that returned without applying a move
NothingApplied ==
    /\ op' = "make_move"
    /\ Len(move_history') = Len(move_history)

\* on the board b the move m moves a pawn (an en passant capture is one) or
\* goes to a square that holds a piece
ResetsHalfmove(b, m) ==
    \/ PieceOn(b, m.from_sq) \in {WHITE_PAWN, BLACK_PAWN}
    \/ PieceOn(b, m.to_sq) # NONE

\* C25: the halfmove clock.  Every applied make_move, with or without the
\* legality test, sets halfmove to 0 if the moved piece is a pawn, the
\* destination held a piece or the move took en passant, and to the previous
\* value plus 1 otherwise, castling included; a make_move that applies nothing
\* leaves it unchanged.
C25_HalfmoveClock ==
    [][/\ MoveJustApplied =>
              \E m \in {move_history'[Len(move_history')].move} :
                  halfmove' = IF ResetsHalfmove(board, m) THEN 0 ELSE halfmove + 1
       /\ NothingApplied => halfmove' = halfmove]_vars

\* castling has been applied with the clock at 0, and the clock stands at 1
C25_Witness ==
    /\ op = "make_move"
    /\ Len(move_history) >= 1
    /\ move_history[Len(move_history)].castling_move
    /\ move_history[Len(move_history)].halfmove = 0
    /\ halfmove = 1

\* ---------------------------------------------------------------------------
\* on the board b the move m takes a pawn onto the farthest rank
ReachesFarthestRank(b, m) ==
    \/ PieceOn(b, m.from_sq) = WHITE_PAWN /\ m.to_sq[2] = "8"
    \/ PieceOn(b, m.from_sq) = BLACK_PAWN /\ m.to_sq[2] = "1"

\* the queen of the side that owns the piece on the square
MoversQueen(b, square) ==
    IF PieceIsWhite(PieceOn(b, square)) THEN WHITE_QUEEN ELSE BLACK_QUEEN

\* the moves the caller submits that end on the first or the last rank, each
\* with every promotion value and with a pawn as the promotion value
LastRankInputs(g) ==
    {Move(m.from_sq, m.to_sq, p) : m \in {x \in MoveInputs(g) : x.to_sq[2] \in {"1", "8"}},
                                   p \in PromotionInputsOf(g) \cup {WHITE_PAWN}}

\* the result R of applying `move` promotes as the move asks: the destination
\* holds the piece supplied, or the mover's queen when none is, the source is
\* empty, and no pawn stands on the destination
PromotesAsAsked(R, move) ==
    /\ PieceOn(R.self.board, move.to_sq)
           = PromotionOr(move.promotion, MoversQueen(board, move.from_sq))
    /\ PieceOn(R.self.board, move.from_sq) = NONE
    /\ PieceOn(R.self.board, move.to_sq) \notin {WHITE_PAWN, BLACK_PAWN}

\* C26: promotion application.  When make_move applies a move that takes a
\* pawn onto the farthest rank, the destination then holds the promotion piece
\* the move supplied, or the mover's queen when it supplied none, the source
\* square is empty and no pawn stands on the destination; when the applied
\* move is not a pawn reaching the farthest rank, its promotion value is
\* ignored: the call returns and leaves what it does for the same move
\* without one.
C26_PromotionApplied ==
    (Alive /\ ~is_game_over_raises(self)) =>
        \A G \in {is_game_over_call(self)} :
            \A move \in LastRankInputs(game) : \A check_legal \in BOOLEAN :
                MakeMoveAfterRaises(G, move, check_legal)
                \/ \A R \in {MakeMoveAfter(G, move, check_legal)} :
                       R.exit = "applied" =>
                           IF ReachesFarthestRank(board, move)
                           THEN PromotesAsAsked(R, move)
                           ELSE R = MakeMoveAfter(G, Move(move.from_sq, move.to_sq, NoneInt), check_legal)

\* ---------------------------------------------------------------------------
\* C27: get_moves() and is_game_over() are pure with respect to the position.
\* After either call the board, the side to move, the castling rights, the en
\* passant target, halfmove, fullmove, the cached king positions, the clocks
\* and both histories are as before: only the legal-move cache may differ.
C27_QueriesPure ==
    [][(\/ op' \in {"get_moves", "is_game_over"}
        \/ op' = "TypeError" /\ ret' \in {"get_moves", "is_game_over"})
           => SameButCache(self, self')]_vars

\* ---------------------------------------------------------------------------
\* this step is a make_move that returned the forfeiture of an illegal move
IllegalMoveReturned ==
    /\ op' = "make_move"
    /\ ret'.reason = "illegal move"

\* C28: an illegal-move forfeiture leaves the position untouched and is not
\* remembered.  After make_move returns reason 'illegal move', the board, the
\* side to move, the rights, the en passant target, the counters and both
\* histories are as before the call; no undo record was pushed, so a following
\* undo_move undoes what it would have undone before; and is_game_over()
\* reports what it reported before.
C28_IllegalMoveForgotten ==
    [][IllegalMoveReturned =>
           /\ SameButCache(self, self')
           /\ move_history' = move_history
           /\ SameButCache(undo_move(self'), undo_move(self))
           /\ is_game_over(self') = is_game_over(self)]_vars

\* an illegal move has been refused after a move was applied, and undo_move
\* takes back the applied move
C28_Witness ==
    /\ op = "make_move"
    /\ ret.reason = "illegal move"
    /\ Len(move_history) >= 1
    /\ Len(undo_move(self).move_history) = Len(move_history) - 1
    /\ ~is_game_over(self).over

\* ---------------------------------------------------------------------------
\* the pieces a pawn of the given colour may become
PromotionChoices(is_white) ==
    {get_promotion_pieces(is_white)[i] : i \in 1..Len(get_promotion_pieces(is_white))}

\* C29: with the legality test on, make_move puts no invalid piece on the
\* board through promotion.  Whatever promotion value the submitted moves
\* carried, the square a pawn has just promoted on holds a queen, rook, bishop
\* or knight of the mover's colour, no pawn stands on rank 1 or 8, and neither
\* side has a second king.
C29_PromotionValid ==
    /\ \A c \in 0..7 : board[0][c] \notin {WHITE_PAWN, BLACK_PAWN}
                       /\ board[7][c] \notin {WHITE_PAWN, BLACK_PAWN}
    /\ CountOf(board, {WHITE_KING}) <= 1
    /\ CountOf(board, {BLACK_KING}) <= 1
    /\ (op = "make_move" /\ move_history # <<>>) =>
           \A last \in {move_history[Len(move_history)]} :
               (last.from_piece \in {WHITE_PAWN, BLACK_PAWN}
                /\ last.move.to_sq[2] \in {"1", "8"}
                /\ PieceOn(board, last.move.from_sq) = NONE) =>
                   PieceOn(board, last.move.to_sq)
                       \in PromotionChoices(PieceIsWhite(last.from_piece))

\* ---------------------------------------------------------------------------
\* C30: in every position reached from the standard starting position by
\* legality-tested make_move and undo_move, a castling bit that is set has that
\* colour's king on its home square (E1/E8) and that colour's rook on the
\* matching corner (H1/A1/H8/A8); so every castling move get_moves() offers
\* has a rook to relocate.
C30_RightsHavePieces ==
    Alive =>
        /\ \A c \in Castlings :
               HasBit(castling_rights, c.bit) =>
                   /\ PieceOn(board, c.from_sq) = c.king
                   /\ PieceOn(board, c.corner) = c.rook
        /\ \A legal_moves \in {get_moves(self)} :
               \A c \in {x \in Castlings : PieceIsWhite(x.king) = white_to_play} :
                   (/\ PieceOn(board, c.from_sq) = c.king
                    /\ InLegalMoves(legal_moves, Move(c.from_sq, c.to_sq, NoneInt))) =>
                       PieceOn(board, c.corner) = c.rook


\* ---------------------------------------------------------------------------
\* C31: load_fen starts a fresh game on an existing Board.  After load_fen on
\* a Board that has applied moves the position history holds the hash of the
\* loaded position alone, no undo record is carried over, so that undo_move()
\* changes nothing, and len(position_history) = len(move_history) + 1.
C31_LoadFenFresh ==
    op = "load_fen" =>
        /\ position_history = <<get_position_hash(self)>>
        /\ move_history = <<>>
        /\ undo_move(self) = self
        /\ Len(position_history) = Len(move_history) + 1


\* ---------------------------------------------------------------------------
\* C32: game-over is stable.  Once is_game_over() reports over, it reports
\* over with the same reason and the same winner after every later make_move
\* or decrement_current_player_timer call (no undo_move, set_timers or
\* load_fen in between).
C32_GameOverStable ==
    [][(/\ op' \in {"make_move", "decrement_current_player_timer"}
        /\ Alive
        /\ ~is_game_over_raises(self)
        /\ is_game_over(self).over)
           => is_game_over(self') = is_game_over(self)]_vars


====
